---- MODULE Spec2Model ----
(***************************************************************************)
(* Verification model of the umple-bench state-machine verifiers:          *)
(*   tasks/umple-state-machine-door/tests/test_state_machine.py   (door)    *)
(*   tasks/umple-state-machine-credit-card/tests/test_state_machine.py (cc) *)
(*   tasks/umple-state-machine-door/tests/state_machine_graph.py  (graph)   *)
(* State indices are 0-based as in the Python source; Python lists and     *)
(* tuples are TLA+ sequences (1-based positions), so adjacency[i][j] of    *)
(* the source is adjacency[i + 1][j + 1] here.                             *)
(***************************************************************************)
EXTENDS Integers, Sequences, FiniteSets, TLC

VARIABLES
    oracle_model,       \* main(): the Model extracted from the oracle class
    candidate_model,    \* main(): the Model extracted from the candidate class
    verdict,            \* what isomorphic_up_to_renaming returned for them
    oracle_machines,    \* main(): oracle_models, one Model per sub-machine
    candidate_machines, \* main(): candidate_models, one Model per sub-machine
    set_verdict,        \* what machine_sets_isomorphic returned for them
    probe_pos,          \* extract_machine_model: the (source, event) pair to probe next
    adjacency,          \* extract_machine_model: the matrix being filled
    observed,           \* extract_machine_model: before, result, after of the last probe
    extraction,         \* extract_machine_model: where the call stands and its result
    class_under_test,   \* discovery: the class handed to the discover_* functions
    discovery,          \* discovery: what the discover_* functions returned or raised
    implementation,     \* extract_all_machine_models: the class whose instances are probed
    run,                \* extract_all_machine_models: the call in progress
    finished_runs,      \* extract_all_machine_models: what the earlier calls returned
    environment,        \* main(): the candidate file, the oracle generator, the two classes
    process,            \* main(): position in the script, stdout/stderr, exit status
    benchmark,          \* run_benchmark: the task in progress, its steps, the tasks done
    docker,             \* the docker commands issued and the containers running
    test_script         \* run_tests.py: position in main(), its counters, results.json

vars == <<oracle_model, candidate_model, verdict,
          oracle_machines, candidate_machines, set_verdict,
          probe_pos, adjacency, observed, extraction,
          class_under_test, discovery,
          implementation, run, finished_runs,
          environment, process,
          benchmark, docker, test_script>>

iso_vars == <<oracle_model, candidate_model, verdict>>
set_vars == <<oracle_machines, candidate_machines, set_verdict>>
extract_vars == <<probe_pos, adjacency, observed, extraction>>
discover_vars == <<class_under_test, discovery>>
run_vars == <<implementation, run, finished_runs>>
main_vars == <<environment, process>>
runner_vars == <<benchmark, docker>>
tests_vars == <<test_script>>

(***************************************************************************)
(* Bounds of the checked instances.                                        *)
(***************************************************************************)
MaxStates == 2
MaxEdges == 1
MaxMachines == 2
MaxEnumStates == 2
MaxEvents == 2
MaxMethods == 5
MaxRuns == 2
MaxTasks == 2
MaxRequired == 1

Idle == [kind |-> "idle"]

(***************************************************************************)
(* Python built-ins used by the verifiers.                                 *)
(***************************************************************************)
range(n) == 0 .. (n - 1)

range_list(n) == [k \in 1 .. n |-> k - 1]

RECURSIVE sum_list(_)
sum_list(s) == IF s = <<>> THEN 0 ELSE Head(s) + sum_list(Tail(s))

remove_at(s, k) == [m \in 1 .. (Len(s) - 1) |-> IF m < k THEN s[m] ELSE s[m + 1]]

RECURSIVE permutations(_)
RECURSIVE permutations_from(_, _)
\* itertools.permutations(s): every ordering of s, in lexicographic order of
\* the positions of s.
permutations(s) == IF s = <<>> THEN << <<>> >> ELSE permutations_from(s, 1)

permutations_from(s, k) ==
    IF k > Len(s) THEN <<>>
    ELSE LET tails == permutations(remove_at(s, k))
         IN  [m \in 1 .. Len(tails) |-> <<s[k]>> \o tails[m]]
             \o permutations_from(s, k + 1)

(***************************************************************************)
(* MachineModel: state_count, initial_index, adjacency.                    *)
(***************************************************************************)
MachineModel(n, init, adj) ==
    [state_count |-> n, initial_index |-> init, adjacency |-> adj]

\* model.adjacency[i][j] for 0-based i, j (adjacency is a tuple of row tuples).
cell(model, i, j) == model.adjacency[i + 1][j + 1]

\* Mutant of rest_of: the initial index is not left out of the list.
rest_of_keeping_initial(n, initial) == range_list(n)

\* [i for i in range(n) if i != initial]
rest_of(n, initial) == SelectSeq(range_list(n), LAMBDA i : i # initial)

\* Mutant of zip_mapping: the permutation is not applied, every other state
\* keeps its own index.
zip_mapping_unpermuted(ref_initial, cand_initial, ref_rest, perm) ==
    [i \in {ref_initial} \cup {ref_rest[m] : m \in 1 .. Len(ref_rest)} |->
        IF i = ref_initial THEN cand_initial ELSE i]

\* mapping = {ref_initial: cand_initial}; then mapping[ref_idx] = cand_idx for
\* every pair of zip(ref_rest, perm).
zip_mapping(ref_initial, cand_initial, ref_rest, perm) ==
    LET zipped == 1 .. (IF Len(ref_rest) < Len(perm) THEN Len(ref_rest) ELSE Len(perm))
    IN  [i \in {ref_initial} \cup {ref_rest[m] : m \in zipped} |->
            IF \E m \in zipped : ref_rest[m] = i
            THEN perm[CHOOSE m \in zipped : ref_rest[m] = i /\
                          \A m2 \in zipped : ref_rest[m2] = i => m2 <= m]
            ELSE cand_initial]

StateCountMismatch == "State count mismatch"
TransitionCountMismatch == "Transition count mismatch"
NoIsomorphismFound == "No graph isomorphism found with initial-state preservation"

\* What a checker call hands back: the returned pair (ok, reason) and, as an
\* observation of the run, how many permutations the loop body was entered for.
Outcome(ok, reason, tried) == [ok |-> ok, reason |-> reason, tried |-> tried]

(***************************************************************************)
(* Shared state_machine_graph module (agent-loop, drivers-license):        *)
(* isomorphism of the supported edges only.                                *)
(***************************************************************************)
\* Mutant of supported_edges: the counts are kept as they are.
supported_edges_uncollapsed(model) == model.adjacency

\* tuple(tuple(1 if count > 0 else 0 for count in row) for row in model.adjacency)
supported_edges(model) ==
    [r \in 1 .. Len(model.adjacency) |->
        [c \in 1 .. Len(model.adjacency[r]) |->
            IF model.adjacency[r][c] > 0 THEN 1 ELSE 0]]

\* Mutant of graph_matches: every edge of the reference must be in the
\* candidate, the candidate may have more.
graph_matches_reference_edges_only(n, reference_edges, candidate_edges, mapping) ==
    \A i \in range(n) :
        \A j \in range(n) :
            reference_edges[i + 1][j + 1] <= candidate_edges[mapping[i] + 1][mapping[j] + 1]

graph_matches(n, reference_edges, candidate_edges, mapping) ==
    \A i \in range(n) :
        \A j \in range(n) :
            reference_edges[i + 1][j + 1] = candidate_edges[mapping[i] + 1][mapping[j] + 1]

RECURSIVE graph_search(_, _, _, _, _, _, _)
graph_search(n, reference_edges, candidate_edges, ref_initial, cand_initial, perms, k) ==
    IF k > Len(perms)
    THEN Outcome(FALSE, NoIsomorphismFound, Len(perms))
    ELSE IF graph_matches(n, reference_edges, candidate_edges,
                          zip_mapping(ref_initial, cand_initial,
                                      rest_of(n, ref_initial), perms[k]))
         THEN Outcome(TRUE, "ok", k)
         ELSE graph_search(n, reference_edges, candidate_edges,
                           ref_initial, cand_initial, perms, k + 1)

graph_isomorphic_up_to_renaming(reference, candidate) ==
    IF reference.state_count # candidate.state_count
    THEN Outcome(FALSE, StateCountMismatch, 0)
    ELSE LET n == reference.state_count
             cand_rest == rest_of(n, candidate.initial_index)
         IN  graph_search(n, supported_edges(reference), supported_edges(candidate),
                          reference.initial_index, candidate.initial_index,
                          permutations(cand_rest), 1)

(***************************************************************************)
(* Door verifier: multigraph isomorphism.                                  *)
(***************************************************************************)
\* Mutant of door_total_edges: sum(len(row)) instead of sum(sum(row)).
door_total_edges_row_lengths(model) ==
    sum_list([r \in 1 .. Len(model.adjacency) |-> Len(model.adjacency[r])])

door_total_edges(model) ==
    sum_list([r \in 1 .. Len(model.adjacency) |-> sum_list(model.adjacency[r])])

\* Mutant of door_matches: the candidate cell is read transposed.
door_matches_transposed(reference, candidate, mapping) ==
    \A i \in range(reference.state_count) :
        \A j \in range(reference.state_count) :
            cell(reference, i, j) = cell(candidate, mapping[j], mapping[i])

door_matches(reference, candidate, mapping) ==
    \A i \in range(reference.state_count) :
        \A j \in range(reference.state_count) :
            cell(reference, i, j) = cell(candidate, mapping[i], mapping[j])

RECURSIVE door_search(_, _, _, _, _)
door_search(reference, candidate, ref_rest, perms, k) ==
    IF k > Len(perms)
    THEN Outcome(FALSE, NoIsomorphismFound, Len(perms))
    ELSE IF door_matches(reference, candidate,
                         zip_mapping(reference.initial_index, candidate.initial_index,
                                     ref_rest, perms[k]))
         THEN Outcome(TRUE, "ok", k)
         ELSE door_search(reference, candidate, ref_rest, perms, k + 1)

\* Mutant of door_isomorphic_up_to_renaming: the shared module's presence-only
\* comparison in place of the door task's own.
door_isomorphic_presence_only(reference, candidate) ==
    graph_isomorphic_up_to_renaming(reference, candidate)

door_isomorphic_up_to_renaming(reference, candidate) ==
    IF reference.state_count # candidate.state_count
    THEN Outcome(FALSE, StateCountMismatch, 0)
    ELSE IF door_total_edges(reference) # door_total_edges(candidate)
    THEN Outcome(FALSE, TransitionCountMismatch, 0)
    ELSE LET n == reference.state_count
             ref_rest == rest_of(n, reference.initial_index)
             cand_rest == rest_of(n, candidate.initial_index)
         IN  door_search(reference, candidate, ref_rest, permutations(cand_rest), 1)

(***************************************************************************)
(* Credit-card verifier: multigraph isomorphism (its own copy of the code).*)
(***************************************************************************)
cc_total_edges(model) ==
    sum_list([r \in 1 .. Len(model.adjacency) |-> sum_list(model.adjacency[r])])

\* Mutant of cc_matches: the diagonal cells are not compared.
cc_matches_off_diagonal(reference, candidate, mapping) ==
    \A i \in range(reference.state_count) :
        \A j \in range(reference.state_count) :
            i # j => cell(reference, i, j) = cell(candidate, mapping[i], mapping[j])

cc_matches(reference, candidate, mapping) ==
    \A i \in range(reference.state_count) :
        \A j \in range(reference.state_count) :
            cell(reference, i, j) = cell(candidate, mapping[i], mapping[j])

RECURSIVE cc_search(_, _, _, _, _)
cc_search(reference, candidate, ref_rest, perms, k) ==
    IF k > Len(perms)
    THEN Outcome(FALSE, NoIsomorphismFound, Len(perms))
    ELSE IF cc_matches(reference, candidate,
                       zip_mapping(reference.initial_index, candidate.initial_index,
                                   ref_rest, perms[k]))
         THEN Outcome(TRUE, "ok", k)
         ELSE cc_search(reference, candidate, ref_rest, perms, k + 1)

\* Mutant of cc_isomorphic_up_to_renaming: the two early checks are swapped,
\* the transition counts are compared before the state counts.
cc_isomorphic_edges_first(reference, candidate) ==
    IF cc_total_edges(reference) # cc_total_edges(candidate)
    THEN Outcome(FALSE, TransitionCountMismatch, 0)
    ELSE IF reference.state_count # candidate.state_count
    THEN Outcome(FALSE, StateCountMismatch, 0)
    ELSE LET n == reference.state_count
             ref_rest == rest_of(n, reference.initial_index)
             cand_rest == rest_of(n, candidate.initial_index)
         IN  cc_search(reference, candidate, ref_rest, permutations(cand_rest), 1)

cc_isomorphic_up_to_renaming(reference, candidate) ==
    IF reference.state_count # candidate.state_count
    THEN Outcome(FALSE, StateCountMismatch, 0)
    ELSE IF cc_total_edges(reference) # cc_total_edges(candidate)
    THEN Outcome(FALSE, TransitionCountMismatch, 0)
    ELSE LET n == reference.state_count
             ref_rest == rest_of(n, reference.initial_index)
             cand_rest == rest_of(n, candidate.initial_index)
         IN  cc_search(reference, candidate, ref_rest, permutations(cand_rest), 1)

(***************************************************************************)
(* Set matcher: machine_sets_isomorphic of the shared module and of the    *)
(* credit-card verifier.  A reason is a tuple: its text and, for the count *)
(* mismatch, the two formatted lengths.                                    *)
(***************************************************************************)
MachineCountMismatch(expected, got) ==
    <<"State-machine count mismatch: expected", expected, "got", got>>

NoSetIsomorphismFound == <<"No isomorphic mapping found between state machines">>

\* The returned pair (ok, reason) and, as an observation of the run, how many
\* calls of isomorphic_up_to_renaming were made.
SetOutcome(ok, reason, compared) == [ok |-> ok, reason |-> reason, compared |-> compared]

\* Mutant of position_orders: only the declaration order is tried.
position_orders_declared_only(n) == <<range_list(n)>>

\* itertools.permutations(range(n))
position_orders(n) == permutations(range_list(n))

RECURSIVE graph_all_match(_, _, _, _)
\* The inner loop over enumerate(perm), from position ref_idx on: whether every
\* pair matched, and how many pairs were compared before the loop ended.
graph_all_match(reference_models, candidate_models, perm, ref_idx) ==
    IF ref_idx >= Len(perm) THEN [all_match |-> TRUE, compared |-> 0]
    ELSE IF ~graph_isomorphic_up_to_renaming(reference_models[ref_idx + 1],
                                             candidate_models[perm[ref_idx + 1] + 1]).ok
         THEN [all_match |-> FALSE, compared |-> 1]
         ELSE LET later == graph_all_match(reference_models, candidate_models,
                                           perm, ref_idx + 1)
              IN  [all_match |-> later.all_match, compared |-> later.compared + 1]

RECURSIVE graph_set_search(_, _, _, _, _)
graph_set_search(reference_models, candidate_models, perms, k, compared) ==
    IF k > Len(perms)
    THEN SetOutcome(FALSE, NoSetIsomorphismFound, compared)
    ELSE LET pass == graph_all_match(reference_models, candidate_models, perms[k], 0)
         IN  IF pass.all_match
             THEN SetOutcome(TRUE, <<"ok">>, compared + pass.compared)
             ELSE graph_set_search(reference_models, candidate_models, perms, k + 1,
                                   compared + pass.compared)

graph_machine_sets_isomorphic(reference_models, candidate_models) ==
    IF Len(reference_models) # Len(candidate_models)
    THEN SetOutcome(FALSE,
                    MachineCountMismatch(Len(reference_models), Len(candidate_models)), 0)
    ELSE graph_set_search(reference_models, candidate_models,
                          position_orders(Len(reference_models)), 1, 0)

\* Mutant of cc_all_match: the loop stops after the first pair.
cc_all_match_first_pair_only(reference_models, candidate_models, perm, ref_idx) ==
    IF ref_idx >= Len(perm) THEN [all_match |-> TRUE, compared |-> 0]
    ELSE [all_match |-> cc_isomorphic_up_to_renaming(
                            reference_models[ref_idx + 1],
                            candidate_models[perm[ref_idx + 1] + 1]).ok,
          compared |-> 1]

RECURSIVE cc_all_match(_, _, _, _)
cc_all_match(reference_models, candidate_models, perm, ref_idx) ==
    IF ref_idx >= Len(perm) THEN [all_match |-> TRUE, compared |-> 0]
    ELSE IF ~cc_isomorphic_up_to_renaming(reference_models[ref_idx + 1],
                                          candidate_models[perm[ref_idx + 1] + 1]).ok
         THEN [all_match |-> FALSE, compared |-> 1]
         ELSE LET later == cc_all_match(reference_models, candidate_models,
                                        perm, ref_idx + 1)
              IN  [all_match |-> later.all_match, compared |-> later.compared + 1]

RECURSIVE cc_set_search(_, _, _, _, _)
cc_set_search(reference_models, candidate_models, perms, k, compared) ==
    IF k > Len(perms)
    THEN SetOutcome(FALSE, NoSetIsomorphismFound, compared)
    ELSE LET pass == cc_all_match(reference_models, candidate_models, perms[k], 0)
         IN  IF pass.all_match
             THEN SetOutcome(TRUE, <<"ok">>, compared + pass.compared)
             ELSE cc_set_search(reference_models, candidate_models, perms, k + 1,
                                compared + pass.compared)

cc_machine_sets_isomorphic(reference_models, candidate_models) ==
    IF Len(reference_models) # Len(candidate_models)
    THEN SetOutcome(FALSE,
                    MachineCountMismatch(Len(reference_models), Len(candidate_models)), 0)
    ELSE cc_set_search(reference_models, candidate_models,
                       position_orders(Len(reference_models)), 1, 0)

(***************************************************************************)
(* Inputs: every well-formed MachineModel within the bounds, and the door   *)
(* machine of the door task's ORACLE_UMPLE with the machines one change    *)
(* away from it, under every state order.                                  *)
(***************************************************************************)
ZeroMatrix(n) == [r \in 1 .. n |-> [c \in 1 .. n |-> 0]]

\* Mutant of AddEdge: the cell is marked, not counted.
MarkEdge(adj, i, j) == [adj EXCEPT ![i + 1][j + 1] = 1]

\* Mutant of AddEdge: the increment lands in the row of the state reached.
AddEdgeInTargetRow(adj, i, j) == [adj EXCEPT ![j + 1][i + 1] = @ + 1]

\* adjacency[i][j] += 1
AddEdge(adj, i, j) == [adj EXCEPT ![i + 1][j + 1] = @ + 1]

RECURSIVE Matrices(_, _)
\* The n x n matrices of non-negative counts whose sum is at most e.
Matrices(n, e) ==
    IF e = 0 THEN {ZeroMatrix(n)}
    ELSE LET fewer == Matrices(n, e - 1)
         IN  fewer \cup {AddEdge(adj, i, j) : adj \in fewer, i \in range(n), j \in range(n)}

ModelsOfSize(n, e) ==
    {MachineModel(n, init, adj) : init \in range(n), adj \in Matrices(n, e)}

Models == UNION {ModelsOfSize(n, MaxEdges) : n \in 1 .. MaxStates}

\* The bijections of range(n) onto itself.
Bijections(n) == {p \in [range(n) -> range(n)] : \A a, b \in range(n) : p[a] = p[b] => a = b}

\* relabel(M, p): state i of M is called p[i] in the result.
relabel(model, p) ==
    LET n == model.state_count
        inv(k) == CHOOSE i \in range(n) : p[i] = k
    IN  MachineModel(n, p[model.initial_index],
                     [r \in 1 .. n |-> [c \in 1 .. n |-> cell(model, inv(r - 1), inv(c - 1))]])

\* ORACLE_UMPLE of the door task: Closed(0), Open(1), Locked(2); initial Closed;
\* open: Closed->Open, lock: Closed->Locked, close: Open->Closed, unlock: Locked->Closed.
DoorOracle == MachineModel(3, 0, << <<0, 1, 1>>, <<1, 0, 0>>, <<1, 0, 0>> >>)

\* The same door without the lock/unlock pair.
DoorWithoutLock == MachineModel(3, 0, << <<0, 1, 0>>, <<1, 0, 0>>, <<0, 0, 0>> >>)

\* The door oracle, the door without lock/unlock, and the door with one
\* transition added or one of its transitions removed.
DoorVariants ==
    {DoorOracle, DoorWithoutLock}
    \cup {[DoorOracle EXCEPT !.adjacency = AddEdge(@, i, j)] :
              i \in range(3), j \in range(3)}
    \cup {[DoorOracle EXCEPT !.adjacency[ij[1] + 1][ij[2] + 1] = @ - 1] :
              ij \in {c \in range(3) \X range(3) : cell(DoorOracle, c[1], c[2]) > 0}}

\* The variants under every state order, and started in every state.
DoorFamily ==
    {relabel(m, p) : m \in DoorVariants, p \in Bijections(3)}
    \cup {[m EXCEPT !.initial_index = k] : m \in DoorVariants, k \in range(3)}

InputModels == Models \cup DoorFamily

ModelPairs == InputModels \X InputModels

(***************************************************************************)
(* Comparing one pair of Models: each verifier's isomorphic_up_to_renaming *)
(* applied to (oracle_model, candidate_model).                             *)
(***************************************************************************)
Verdict(checker, outcome) ==
    [kind |-> "returned", checker |-> checker, ok |-> outcome.ok,
     reason |-> outcome.reason, tried |-> outcome.tried]

IsoInit ==
    /\ \E pair \in ModelPairs :
          /\ oracle_model = pair[1]
          /\ candidate_model = pair[2]
    /\ verdict = Idle
    /\ oracle_machines = <<>>
    /\ candidate_machines = <<>>
    /\ set_verdict = Idle
    /\ probe_pos = <<>>
    /\ adjacency = <<>>
    /\ observed = <<>>
    /\ extraction = Idle
    /\ class_under_test = <<>>
    /\ discovery = Idle
    /\ implementation = <<>>
    /\ run = Idle
    /\ finished_runs = <<>>
    /\ environment = <<>>
    /\ process = Idle
    /\ benchmark = Idle
    /\ docker = <<>>
    /\ test_script = Idle

DoorCompare ==
    /\ verdict = Idle
    /\ verdict' = Verdict("door", door_isomorphic_up_to_renaming(oracle_model, candidate_model))
    /\ UNCHANGED <<oracle_model, candidate_model, set_vars, extract_vars, discover_vars, run_vars, main_vars, runner_vars, tests_vars>>

CreditCardCompare ==
    /\ verdict = Idle
    /\ verdict' = Verdict("credit-card",
                          cc_isomorphic_up_to_renaming(oracle_model, candidate_model))
    /\ UNCHANGED <<oracle_model, candidate_model, set_vars, extract_vars, discover_vars, run_vars, main_vars, runner_vars, tests_vars>>

GraphCompare ==
    /\ verdict = Idle
    /\ verdict' = Verdict("graph",
                          graph_isomorphic_up_to_renaming(oracle_model, candidate_model))
    /\ UNCHANGED <<oracle_model, candidate_model, set_vars, extract_vars, discover_vars, run_vars, main_vars, runner_vars, tests_vars>>

IsoNext == DoorCompare \/ CreditCardCompare \/ GraphCompare

IsoSpec == IsoInit /\ [][IsoNext]_vars

(***************************************************************************)
(* Matching two lists of sub-machine Models: machine_sets_isomorphic       *)
(* applied to (oracle_machines, candidate_machines), as main() calls it    *)
(* with the lists extract_all_machine_models returned.                     *)
(***************************************************************************)
\* ORACLE_UMPLE of the credit-card task, sub-machine "process": preApproval(0),
\* onHold(1), cancelled(2), complete(3), failed(4); initial preApproval.
CreditCardProcess ==
    MachineModel(5, 0, << <<0, 1, 1, 1, 1>>, <<0, 0, 1, 1, 1>>, <<0, 0, 0, 0, 0>>,
                          <<0, 0, 0, 0, 0>>, <<0, 0, 0, 0, 0>> >>)

\* Sub-machine "accountStatus": notOnHold(0) <-> onHoldStatus(1); initial notOnHold.
CreditCardAccountStatus == MachineModel(2, 0, << <<0, 1>>, <<1, 0>> >>)

\* The sub-machines the lists are drawn from: the two of the credit-card
\* oracle, the account status under the other state order, and the account
\* status with a second, parallel hold transition.
SubMachines ==
    { CreditCardProcess,
      CreditCardAccountStatus,
      relabel(CreditCardAccountStatus, [i \in range(2) |-> 1 - i]),
      MachineModel(2, 0, << <<0, 2>>, <<1, 0>> >>) }

ListsUpTo(pool, k) == UNION {[1 .. m -> pool] : m \in 0 .. k}

SetVerdict(checker, outcome) ==
    [kind |-> "returned", checker |-> checker, ok |-> outcome.ok,
     reason |-> outcome.reason, compared |-> outcome.compared]

SetInit ==
    /\ oracle_model = <<>>
    /\ candidate_model = <<>>
    /\ verdict = Idle
    /\ oracle_machines \in ListsUpTo(SubMachines, MaxMachines)
    /\ candidate_machines \in ListsUpTo(SubMachines, MaxMachines)
    /\ set_verdict = Idle
    /\ probe_pos = <<>>
    /\ adjacency = <<>>
    /\ observed = <<>>
    /\ extraction = Idle
    /\ class_under_test = <<>>
    /\ discovery = Idle
    /\ implementation = <<>>
    /\ run = Idle
    /\ finished_runs = <<>>
    /\ environment = <<>>
    /\ process = Idle
    /\ benchmark = Idle
    /\ docker = <<>>
    /\ test_script = Idle

GraphMatchSets ==
    /\ set_verdict = Idle
    /\ set_verdict' = SetVerdict("graph",
                           graph_machine_sets_isomorphic(oracle_machines, candidate_machines))
    /\ UNCHANGED <<oracle_machines, candidate_machines, iso_vars, extract_vars, discover_vars, run_vars, main_vars, runner_vars, tests_vars>>

CreditCardMatchSets ==
    /\ set_verdict = Idle
    /\ set_verdict' = SetVerdict("credit-card",
                           cc_machine_sets_isomorphic(oracle_machines, candidate_machines))
    /\ UNCHANGED <<oracle_machines, candidate_machines, iso_vars, extract_vars, discover_vars, run_vars, main_vars, runner_vars, tests_vars>>

SetNext == GraphMatchSets \/ CreditCardMatchSets

SetSpec == SetInit /\ [][SetNext]_vars

(***************************************************************************)
(* Model extraction: extract_machine_model of the three verifiers, one     *)
(* step per pass of the loop over (source, event).  The class under test   *)
(* is a black box: what its setter, getter and event do on the fresh       *)
(* instance of a probe is an input of that probe.                          *)
(*   observed.before / after : index of the state the getter returned      *)
(*   observed.result         : "True", "False" (a bool), "None" (any value *)
(*                             that is no bool) or "raises"                *)
(***************************************************************************)
Extractors == {"door", "graph", "credit-card"}

EventResults == {"True", "False", "None", "raises"}

InconsistentEventContract == "Event returned False but changed state"

CandidateException == "exception raised by the class under test"

NoStatesDiscovered == "No states discovered"

\* Mutant of door_probe_policy: a False result is never checked against the state.
door_probe_policy_unchecked(before, result, after) ==
    IF result \notin {"True", "False"} THEN "continue"
    ELSE IF result = "True" THEN "increment"
    ELSE "none"

\* The branch the loop body takes once before, result and after are known
\* (door verifier): "continue", "increment" adjacency[index[source]][index[after]],
\* "raise" AssertionError, or "none" of them.
door_probe_policy(before, result, after) ==
    IF result \notin {"True", "False"} THEN "continue"
    ELSE IF result = "True" THEN "increment"
    ELSE IF after # before THEN "raise"
    ELSE "none"

\* Mutant of graph_probe_policy: a True result counts only when the state
\* changed, as in the credit-card verifier.
graph_probe_policy_moves_only(before, result, after) ==
    IF result \notin {"True", "False"} THEN "continue"
    ELSE IF result = "True" /\ after # before THEN "increment"
    ELSE IF result # "True" /\ after # before THEN "raise"
    ELSE "none"

\* The same branches in the shared state_machine_graph module.
graph_probe_policy(before, result, after) ==
    IF result \notin {"True", "False"} THEN "continue"
    ELSE IF result = "True" THEN "increment"
    ELSE IF result # "True" /\ after # before THEN "raise"
    ELSE "none"

\* The same branches in the credit-card verifier.
cc_probe_policy(before, result, after) ==
    IF result \notin {"True", "False"} THEN "continue"
    ELSE IF result = "True" /\ after # before THEN "increment"
    ELSE IF result # "True" /\ after # before THEN "raise"
    ELSE "none"

probe_policy(extractor, before, result, after) ==
    IF extractor = "door" THEN door_probe_policy(before, result, after)
    ELSE IF extractor = "graph" THEN graph_probe_policy(before, result, after)
    ELSE cc_probe_policy(before, result, after)

Extraction(kind, extractor, n, m, init, error, model) ==
    [kind |-> kind, extractor |-> extractor, state_count |-> n, event_count |-> m,
     initial_index |-> init, error |-> error, model |-> model]

\* Mutant of next_pair: the inner loop is left after its first event.
next_pair_first_event_only(pos, m) == <<pos[1] + 1, 0>>

\* for source in states: for event in event_names: the pair after (source, event).
next_pair(pos, m) == IF pos[2] + 1 < m THEN <<pos[1], pos[2] + 1>> ELSE <<pos[1] + 1, 0>>

ExtractInit ==
    /\ oracle_model = <<>>
    /\ candidate_model = <<>>
    /\ verdict = Idle
    /\ oracle_machines = <<>>
    /\ candidate_machines = <<>>
    /\ set_verdict = Idle
    /\ probe_pos = <<>>
    /\ adjacency = <<>>
    /\ observed = <<>>
    /\ extraction = Idle
    /\ class_under_test = <<>>
    /\ discovery = Idle
    /\ implementation = <<>>
    /\ run = Idle
    /\ finished_runs = <<>>
    /\ environment = <<>>
    /\ process = Idle
    /\ benchmark = Idle
    /\ docker = <<>>
    /\ test_script = Idle

\* states = list(enum_cls); the emptiness check; index; the initial state of a
\* fresh instance; the zero matrix.
BeginExtraction(extractor) ==
    /\ extraction.kind = "idle"
    /\ \E n \in 0 .. MaxEnumStates, m \in 1 .. MaxEvents :
          IF n = 0
          THEN /\ extraction' = Extraction("raised", extractor, n, m, 0,
                                           NoStatesDiscovered, <<>>)
               /\ UNCHANGED <<probe_pos, adjacency>>
          ELSE \E initial_index \in range(n) :
                 /\ extraction' = Extraction("running", extractor, n, m, initial_index,
                                             "", <<>>)
                 /\ probe_pos' = <<0, 0>>
                 /\ adjacency' = ZeroMatrix(n)
    /\ UNCHANGED <<observed, iso_vars, set_vars, discover_vars, run_vars, main_vars, runner_vars, tests_vars>>

\* One pass of the loop body: a fresh instance, setter(source), before,
\* the event's result, after, then the policy.
Probe(extractor) ==
    /\ extraction.kind = "running"
    /\ extraction.extractor = extractor
    /\ probe_pos[1] < extraction.state_count
    /\ \E before \in range(extraction.state_count), result \in EventResults,
          after \in range(extraction.state_count) :
          LET source == probe_pos[1]
              event == probe_pos[2]
              branch == IF result = "raises" THEN "propagate"
                        ELSE probe_policy(extractor, before, result, after)
          IN  /\ observed' = [source |-> source, event |-> event, before |-> before,
                              result |-> result, after |-> after,
                              incremented |-> (branch = "increment")]
              /\ adjacency' = IF branch = "increment"
                              THEN AddEdge(adjacency, source, after)
                              ELSE adjacency
              /\ extraction' =
                    IF branch = "raise"
                    THEN [extraction EXCEPT !.kind = "raised",
                                            !.error = InconsistentEventContract]
                    ELSE IF branch = "propagate"
                    THEN [extraction EXCEPT !.kind = "raised",
                                            !.error = CandidateException]
                    ELSE extraction
              /\ probe_pos' = IF branch \in {"raise", "propagate"}
                              THEN probe_pos
                              ELSE next_pair(probe_pos, extraction.event_count)
    /\ UNCHANGED <<iso_vars, set_vars, discover_vars, run_vars, main_vars, runner_vars, tests_vars>>

\* After the loop: the matrix is frozen and the MachineModel returned.
ReturnModel(extractor) ==
    /\ extraction.kind = "running"
    /\ extraction.extractor = extractor
    /\ probe_pos[1] >= extraction.state_count
    /\ extraction' = [extraction EXCEPT
                          !.kind = "returned",
                          !.model = MachineModel(extraction.state_count,
                                                 extraction.initial_index, adjacency)]
    /\ UNCHANGED <<probe_pos, adjacency, observed, iso_vars, set_vars, discover_vars, run_vars, main_vars, runner_vars, tests_vars>>

DoorExtractBegin == BeginExtraction("door")
DoorExtractProbe == Probe("door")
DoorExtractReturn == ReturnModel("door")
GraphExtractBegin == BeginExtraction("graph")
GraphExtractProbe == Probe("graph")
GraphExtractReturn == ReturnModel("graph")
CreditCardExtractBegin == BeginExtraction("credit-card")
CreditCardExtractProbe == Probe("credit-card")
CreditCardExtractReturn == ReturnModel("credit-card")

ExtractNext ==
    \/ DoorExtractBegin \/ DoorExtractProbe \/ DoorExtractReturn
    \/ GraphExtractBegin \/ GraphExtractProbe \/ GraphExtractReturn
    \/ CreditCardExtractBegin \/ CreditCardExtractProbe \/ CreditCardExtractReturn

ExtractSpec == ExtractInit /\ [][ExtractNext]_vars

(***************************************************************************)
(* Discovery: discover_state_machine_accessors / discover_machine_contexts *)
(* and discover_event_names.  A name is the tuple of its characters, so    *)
(* that startswith, endswith, slicing and the order of sorted() are what   *)
(* they are in Python.                                                     *)
(***************************************************************************)
\* The characters the names below use, in code point order.
Ascii == << "F", "M", "N", "S", "T", "_",
            "a", "c", "d", "e", "g", "i", "k", "l", "m", "n", "o", "p", "r", "s",
            "t", "u", "v" >>

ord(c) == CHOOSE k \in 1 .. Len(Ascii) : Ascii[k] = c

\* a < b for two str values.
RECURSIVE str_less(_, _)
str_less(a, b) ==
    IF a = <<>> THEN b # <<>>
    ELSE IF b = <<>> THEN FALSE
    ELSE IF Head(a) = Head(b) THEN str_less(Tail(a), Tail(b))
    ELSE ord(Head(a)) < ord(Head(b))

startswith(name, prefix) ==
    Len(name) >= Len(prefix) /\ SubSeq(name, 1, Len(prefix)) = prefix

endswith(name, suffix) ==
    Len(name) >= Len(suffix) /\ SubSeq(name, Len(name) - Len(suffix) + 1, Len(name)) = suffix

\* Mutant of sorted: the list is returned in the order it came in.
sorted_as_given(names) == names

\* sorted(names) for a list of str.
RECURSIVE sorted(_)
sorted(names) ==
    IF names = <<>> THEN <<>>
    ELSE LET least == CHOOSE k \in 1 .. Len(names) :
                          \A j \in 1 .. Len(names) :
                              /\ ~str_less(names[j], names[k])
                              /\ (names[j] = names[k] => k <= j)
         IN  <<names[least]>> \o sorted(remove_at(names, least))

\* list(set(names)): the distinct names in the order the set yields them; the
\* order depends on the hash seed of the process, drawn here from the orders
\* "ascending" and "descending".
HashSeeds == {"ascending", "descending"}

RECURSIVE ascending(_)
ascending(s) ==
    IF s = {} THEN <<>>
    ELSE LET least == CHOOSE a \in s : \A b \in s : ~str_less(b, a)
         IN  <<least>> \o ascending(s \ {least})

reversed(names) == [k \in 1 .. Len(names) |-> names[Len(names) + 1 - k]]

set_of(names, hash_seed) ==
    LET distinct == {names[k] : k \in 1 .. Len(names)}
    IN  IF hash_seed = "ascending" THEN ascending(distinct) ELSE reversed(ascending(distinct))

str_get == <<"g", "e", "t">>
str_set == <<"s", "e", "t">>
str_FullName == <<"F", "u", "l", "l", "N", "a", "m", "e">>
str_underscore == <<"_">>
str_init == <<"_", "_", "i", "n", "i", "t", "_", "_">>
str_delete == <<"d", "e", "l", "e", "t", "e">>

\* What a method does when called on a freshly constructed instance.
ReturnsEnum(enum_cls) == [kind |-> "enum", enum |-> enum_cls]
ReturnsBool == [kind |-> "bool", enum |-> <<>>]
ReturnsOther == [kind |-> "other", enum |-> <<>>]
RaisesException == [kind |-> "raises", enum |-> <<>>]

\* A function member of the class: its name, len(signature.parameters), what a
\* call on a fresh instance gives, and the enumeration it stores when it is
\* called with a member of it (<<>> for a method that stores none).
Method(name, parameters, outcome, stores) ==
    [name |-> name, parameters |-> parameters, outcome |-> outcome, stores |-> stores]

\* inspect.getmembers(cls, inspect.isclass) filtered to the Enum subclasses:
\* the enum names, sorted by name.
enum_members(cls) == ascending(cls.enum_classes)

\* inspect.getmembers(cls, inspect.isfunction): the method names, sorted by name.
function_members(cls) == ascending({m.name : m \in cls.methods})

method_of(cls, name) == CHOOSE m \in cls.methods : m.name = name

\* hasattr(cls, name)
hasattr(cls, name) == name \in {m.name : m \in cls.methods} \cup cls.enum_classes

isinstance_enum(value, enum_cls) == value.kind = "enum" /\ value.enum = enum_cls

Raise(error) == [raised |-> TRUE, error |-> error, value |-> <<>>]
Return(value) == [raised |-> FALSE, error |-> "", value |-> value]

MachineContext(enum_cls, getter_name, setter_name) ==
    [enum_cls |-> enum_cls, getter_name |-> getter_name, setter_name |-> setter_name]

ExpectedOneEnum == "Expected exactly one state machine enum"
NoGetterFound == "Could not find state-machine getter"
NoSetterFound == "Could not find setter"
NoEnumsDiscovered == "No state machine enums discovered"
ExpectedOneGetter == "Expected exactly one getter for enum"
MissingSetter == "Missing setter for enum"
NoEventsDiscovered == "No event methods discovered"

\* The guards of the getter loops: a name that starts with "get", does not end
\* with "FullName", of a method with one parameter whose call does not raise.
getter_candidate(cls, name) ==
    /\ startswith(name, str_get)
    /\ ~endswith(name, str_FullName)
    /\ method_of(cls, name).parameters = 1
    /\ method_of(cls, name).outcome.kind # "raises"

\* Mutant of setter_name_for: f"set{getter_name}", the prefix is not cut off.
setter_name_unsliced(getter_name) == str_set \o getter_name

\* f"set{getter_name[3:]}"
setter_name_for(getter_name) == str_set \o SubSeq(getter_name, 4, Len(getter_name))

(***************************************************************************)
(* Door verifier.                                                          *)
(***************************************************************************)
\* The getter loop, from position k of the members on: the first candidate
\* whose value is a member of enum_cls (break), or <<>> for None.
RECURSIVE door_getter_from(_, _, _, _)
door_getter_from(cls, enum_cls, members, k) ==
    IF k > Len(members) THEN <<>>
    ELSE IF /\ getter_candidate(cls, members[k])
            /\ isinstance_enum(method_of(cls, members[k]).outcome, enum_cls)
         THEN members[k]
         ELSE door_getter_from(cls, enum_cls, members, k + 1)

door_discover_state_machine_accessors(cls) ==
    LET enum_classes == enum_members(cls)
    IN  IF Len(enum_classes) # 1 THEN Raise(ExpectedOneEnum)
        ELSE LET enum_cls == enum_classes[1]
                 getter_name == door_getter_from(cls, enum_cls, function_members(cls), 1)
                 setter_name == setter_name_for(getter_name)
             IN  IF getter_name = <<>> THEN Raise(NoGetterFound)
                 ELSE IF ~hasattr(cls, setter_name) THEN Raise(NoSetterFound)
                 ELSE Return(MachineContext(enum_cls, getter_name, setter_name))

\* The guards of the event loop, for a name not in the excluded names.
event_candidate(cls, name, excluded_names) ==
    /\ ~startswith(name, str_underscore)
    /\ name \notin excluded_names
    /\ ~(startswith(name, str_get) /\ endswith(name, str_FullName))
    /\ method_of(cls, name).parameters = 1
    /\ method_of(cls, name).outcome.kind # "raises"
    /\ method_of(cls, name).outcome.kind = "bool"

\* Mutant of door_discover_event_names: the emptiness check is missing.
door_discover_event_names_unchecked(cls, getter_name, setter_name, hash_seed) ==
    LET excluded_names == {str_init, str_delete, getter_name, setter_name}
        events == SelectSeq(function_members(cls),
                            LAMBDA name : event_candidate(cls, name, excluded_names))
    IN  Return(sorted(set_of(events, hash_seed)))

door_discover_event_names(cls, getter_name, setter_name, hash_seed) ==
    LET excluded_names == {str_init, str_delete, getter_name, setter_name}
        events == SelectSeq(function_members(cls),
                            LAMBDA name : event_candidate(cls, name, excluded_names))
    IN  IF events = <<>> THEN Raise(NoEventsDiscovered)
        ELSE Return(sorted(set_of(events, hash_seed)))

(***************************************************************************)
(* Shared state_machine_graph module.                                      *)
(***************************************************************************)
\* getter_methods: the (name, value) pairs of the getter candidates.
graph_getter_methods(cls) ==
    LET names == SelectSeq(function_members(cls), LAMBDA name : getter_candidate(cls, name))
    IN  [k \in 1 .. Len(names) |->
            [name |-> names[k], value |-> method_of(cls, names[k]).outcome]]

\* matches = [name for name, value in getter_methods if isinstance(value, enum_cls)]
graph_matches_for(getter_methods, enum_cls) ==
    LET all == SelectSeq(getter_methods, LAMBDA g : isinstance_enum(g.value, enum_cls))
    IN  [k \in 1 .. Len(all) |-> all[k].name]

\* The loop over sorted(enum_classes, key=__name__), from position k on, with
\* the contexts appended so far.
RECURSIVE graph_contexts_from(_, _, _, _, _)
graph_contexts_from(cls, getter_methods, enum_classes, k, contexts) ==
    IF k > Len(enum_classes) THEN Return(contexts)
    ELSE LET enum_cls == enum_classes[k]
             matches == graph_matches_for(getter_methods, enum_cls)
             getter_name == matches[1]
             setter_name == setter_name_for(getter_name)
         IN  IF Len(matches) # 1 THEN Raise(ExpectedOneGetter)
             ELSE IF ~hasattr(cls, setter_name) THEN Raise(MissingSetter)
             ELSE graph_contexts_from(cls, getter_methods, enum_classes, k + 1,
                      Append(contexts, MachineContext(enum_cls, getter_name, setter_name)))

\* Mutant of graph_discover_machine_contexts: the emptiness check is missing.
graph_discover_machine_contexts_unchecked(cls) ==
    graph_contexts_from(cls, graph_getter_methods(cls), sorted(enum_members(cls)), 1, <<>>)

graph_discover_machine_contexts(cls) ==
    LET enum_classes == enum_members(cls)
    IN  IF enum_classes = <<>> THEN Raise(NoEnumsDiscovered)
        ELSE graph_contexts_from(cls, graph_getter_methods(cls), sorted(enum_classes),
                                 1, <<>>)

\* Mutant of graph_discover_event_names: the filter keeps every outcome that
\* is not an exception.
graph_discover_event_names_any_value(cls, excluded_names, hash_seed) ==
    LET events == SelectSeq(function_members(cls),
                      LAMBDA name :
                          /\ ~startswith(name, str_underscore)
                          /\ name \notin excluded_names
                          /\ ~(startswith(name, str_get) /\ endswith(name, str_FullName))
                          /\ method_of(cls, name).parameters = 1
                          /\ method_of(cls, name).outcome.kind # "raises")
    IN  IF events = <<>> THEN Raise(NoEventsDiscovered)
        ELSE Return(sorted(set_of(events, hash_seed)))

graph_discover_event_names(cls, excluded_names, hash_seed) ==
    LET events == SelectSeq(function_members(cls),
                            LAMBDA name : event_candidate(cls, name, excluded_names))
    IN  IF events = <<>> THEN Raise(NoEventsDiscovered)
        ELSE Return(sorted(set_of(events, hash_seed)))

\* extract_all_machine_models: excluded_names = {"__init__", "delete"} and the
\* getter and setter of every context.
graph_excluded_names(contexts) ==
    {str_init, str_delete}
    \cup {contexts[k].getter_name : k \in 1 .. Len(contexts)}
    \cup {contexts[k].setter_name : k \in 1 .. Len(contexts)}

(***************************************************************************)
(* Credit-card verifier (its own copy of the shared module's functions).   *)
(***************************************************************************)
cc_getter_methods(cls) ==
    LET names == SelectSeq(function_members(cls), LAMBDA name : getter_candidate(cls, name))
    IN  [k \in 1 .. Len(names) |->
            [name |-> names[k], value |-> method_of(cls, names[k]).outcome]]

cc_matches_for(getter_methods, enum_cls) ==
    LET all == SelectSeq(getter_methods, LAMBDA g : isinstance_enum(g.value, enum_cls))
    IN  [k \in 1 .. Len(all) |-> all[k].name]

RECURSIVE cc_contexts_from(_, _, _, _, _)
cc_contexts_from(cls, getter_methods, enum_classes, k, contexts) ==
    IF k > Len(enum_classes) THEN Return(contexts)
    ELSE LET enum_cls == enum_classes[k]
             matches == cc_matches_for(getter_methods, enum_cls)
             getter_name == matches[1]
             setter_name == setter_name_for(getter_name)
         IN  IF Len(matches) # 1 THEN Raise(ExpectedOneGetter)
             ELSE IF ~hasattr(cls, setter_name) THEN Raise(MissingSetter)
             ELSE cc_contexts_from(cls, getter_methods, enum_classes, k + 1,
                      Append(contexts, MachineContext(enum_cls, getter_name, setter_name)))

cc_discover_machine_contexts(cls) ==
    LET enum_classes == enum_members(cls)
    IN  IF enum_classes = <<>> THEN Raise(NoEnumsDiscovered)
        ELSE cc_contexts_from(cls, cc_getter_methods(cls), sorted(enum_classes), 1, <<>>)

cc_discover_event_names(cls, excluded_names, hash_seed) ==
    LET events == SelectSeq(function_members(cls),
                            LAMBDA name : event_candidate(cls, name, excluded_names))
    IN  IF events = <<>> THEN Raise(NoEventsDiscovered)
        ELSE Return(sorted(set_of(events, hash_seed)))

cc_excluded_names(contexts) ==
    {str_init, str_delete}
    \cup {contexts[k].getter_name : k \in 1 .. Len(contexts)}
    \cup {contexts[k].setter_name : k \in 1 .. Len(contexts)}

(***************************************************************************)
(* The classes handed to discovery: any of the enumerations Sm and Status, *)
(* and up to MaxMethods of the methods below.                              *)
(***************************************************************************)
enum_Sm == <<"S", "m">>
enum_Status == <<"S", "t", "a", "t", "u", "s">>

str_getSm == <<"g", "e", "t", "S", "m">>
str_setSm == <<"s", "e", "t", "S", "m">>
str_getStatus == <<"g", "e", "t", "S", "t", "a", "t", "u", "s">>
str_setStatus == <<"s", "e", "t", "S", "t", "a", "t", "u", "s">>
str_getMode == <<"g", "e", "t", "M", "o", "d", "e">>
str_getSmFullName == <<"g", "e", "t", "S", "m", "F", "u", "l", "l", "N", "a", "m", "e">>
str_state == <<"s", "t", "a", "t", "e">>
str_moveTo == <<"m", "o", "v", "e", "T", "o">>
str_open == <<"o", "p", "e", "n">>
str_close == <<"c", "l", "o", "s", "e">>
str_tick == <<"_", "t", "i", "c", "k">>
str_reset == <<"r", "e", "s", "e", "t">>
str_setMode == <<"s", "e", "t", "M", "o", "d", "e">>

EnumPool == {enum_Sm, enum_Status}

MethodPool ==
    { Method(str_getSm, 1, ReturnsEnum(enum_Sm), <<>>),
      Method(str_setSm, 2, ReturnsOther, enum_Sm),
      Method(str_getStatus, 1, ReturnsEnum(enum_Status), <<>>),
      Method(str_setStatus, 2, ReturnsOther, enum_Status),
      Method(str_getMode, 1, ReturnsEnum(enum_Sm), <<>>),
      Method(str_getSmFullName, 1, ReturnsOther, <<>>),
      Method(str_state, 1, ReturnsEnum(enum_Sm), <<>>),
      Method(str_moveTo, 2, ReturnsOther, enum_Sm),
      Method(str_open, 1, ReturnsBool, <<>>),
      Method(str_close, 1, ReturnsBool, <<>>),
      Method(str_tick, 1, ReturnsBool, <<>>),
      Method(str_delete, 1, ReturnsBool, <<>>),
      Method(str_setMode, 2, ReturnsOther, enum_Sm),
      Method(str_reset, 1, RaisesException, <<>>) }

ClassesUnderTest ==
    {[enum_classes |-> enums, methods |-> methods] :
        enums \in SUBSET EnumPool,
        methods \in {ms \in SUBSET MethodPool : Cardinality(ms) <= MaxMethods}}

Verifiers == {"door", "graph", "credit-card"}

Discovered(verifier, contexts, event_names) ==
    [kind |-> "returned", verifier |-> verifier, contexts |-> contexts,
     event_names |-> event_names, error |-> ""]

DiscoveryFailed(verifier, error) ==
    [kind |-> "raised", verifier |-> verifier, contexts |-> <<>>,
     event_names |-> <<>>, error |-> error]

DiscoverInit ==
    /\ oracle_model = <<>>
    /\ candidate_model = <<>>
    /\ verdict = Idle
    /\ oracle_machines = <<>>
    /\ candidate_machines = <<>>
    /\ set_verdict = Idle
    /\ probe_pos = <<>>
    /\ adjacency = <<>>
    /\ observed = <<>>
    /\ extraction = Idle
    /\ class_under_test \in ClassesUnderTest
    /\ discovery = Idle
    /\ implementation = <<>>
    /\ run = Idle
    /\ finished_runs = <<>>
    /\ environment = <<>>
    /\ process = Idle
    /\ benchmark = Idle
    /\ docker = <<>>
    /\ test_script = Idle

\* Door verifier, extract_machine_model: the accessors, then the event names.
door_discovery(cls, hash_seed) ==
    LET accessors == door_discover_state_machine_accessors(cls)
        event_names == door_discover_event_names(cls, accessors.value.getter_name,
                                                 accessors.value.setter_name, hash_seed)
    IN  IF accessors.raised THEN DiscoveryFailed("door", accessors.error)
        ELSE IF event_names.raised THEN DiscoveryFailed("door", event_names.error)
        ELSE Discovered("door", <<accessors.value>>, event_names.value)

\* Shared module, extract_all_machine_models: the contexts, the excluded
\* names, then the event names.
graph_discovery(cls, hash_seed) ==
    LET contexts == graph_discover_machine_contexts(cls)
        event_names == graph_discover_event_names(cls, graph_excluded_names(contexts.value),
                                                  hash_seed)
    IN  IF contexts.raised THEN DiscoveryFailed("graph", contexts.error)
        ELSE IF event_names.raised THEN DiscoveryFailed("graph", event_names.error)
        ELSE Discovered("graph", contexts.value, event_names.value)

\* Credit-card verifier, extract_all_machine_models.
cc_discovery(cls, hash_seed) ==
    LET contexts == cc_discover_machine_contexts(cls)
        event_names == cc_discover_event_names(cls, cc_excluded_names(contexts.value),
                                               hash_seed)
    IN  IF contexts.raised THEN DiscoveryFailed("credit-card", contexts.error)
        ELSE IF event_names.raised THEN DiscoveryFailed("credit-card", event_names.error)
        ELSE Discovered("credit-card", contexts.value, event_names.value)

DoorDiscover ==
    /\ discovery = Idle
    /\ \E hash_seed \in HashSeeds :
          discovery' = door_discovery(class_under_test, hash_seed)
    /\ UNCHANGED <<class_under_test, iso_vars, set_vars, extract_vars, run_vars, main_vars, runner_vars, tests_vars>>

GraphDiscover ==
    /\ discovery = Idle
    /\ \E hash_seed \in HashSeeds :
          discovery' = graph_discovery(class_under_test, hash_seed)
    /\ UNCHANGED <<class_under_test, iso_vars, set_vars, extract_vars, run_vars, main_vars, runner_vars, tests_vars>>

CreditCardDiscover ==
    /\ discovery = Idle
    /\ \E hash_seed \in HashSeeds :
          discovery' = cc_discovery(class_under_test, hash_seed)
    /\ UNCHANGED <<class_under_test, iso_vars, set_vars, extract_vars, run_vars, main_vars, runner_vars, tests_vars>>

DiscoverNext == DoorDiscover \/ GraphDiscover \/ CreditCardDiscover

DiscoverSpec == DiscoverInit /\ [][DiscoverNext]_vars

(***************************************************************************)
(* extract_all_machine_models (door verifier: extract_machine_model) run   *)
(* on a class whose instances behave as its tables say.                    *)
(*   states[e]   : len(list(e)) of the enumeration e                       *)
(*   initial[e]  : index of the state a fresh instance is in               *)
(*   set_to[e]   : the state the setter of e leaves the instance in, per   *)
(*                 argument                                                *)
(*   events[name]: the enumeration the event acts on and, per state of it, *)
(*                 the returned result and the state afterwards            *)
(*   one_shot    : an instance answers False to every event after its      *)
(*                 first one                                               *)
(***************************************************************************)
Transition(result, after) == [result |-> result, after |-> after]

\* An event that returns False and changes nothing in every state.
refuses(n) == [s \in range(n) |-> Transition("False", s)]

\* An event that returns True and moves to target from source, and refuses
\* in every other state.
moves(n, source, target) == [refuses(n) EXCEPT ![source] = Transition("True", target)]

Event(machine, delta) == [machine |-> machine, delta |-> delta]

str_lock == <<"l", "o", "c", "k">>
str_unlock == <<"u", "n", "l", "o", "c", "k">>

\* The class Umple generates for ORACLE_UMPLE of the door task: Closed(0),
\* Open(1), Locked(2).
DoorClass ==
    [enum_classes |-> {enum_Sm},
     states |-> [e \in {enum_Sm} |-> 3],
     initial |-> [e \in {enum_Sm} |-> 0],
     accessors |-> {MachineContext(enum_Sm, str_getSm, str_setSm)},
     set_to |-> [e \in {enum_Sm} |-> [s \in range(3) |-> s]],
     events |-> (str_open :> Event(enum_Sm, moves(3, 0, 1)))
                @@ (str_lock :> Event(enum_Sm, moves(3, 0, 2)))
                @@ (str_close :> Event(enum_Sm, moves(3, 1, 0)))
                @@ (str_unlock :> Event(enum_Sm, moves(3, 2, 0))),
     extras |-> {Method(str_getSmFullName, 1, ReturnsOther, <<>>),
                 Method(str_delete, 1, ReturnsOther, <<>>)},
     one_shot |-> FALSE]

\* A class with two sub-machines of two states each, as the credit-card task
\* has them: Sm with open / close, Status with lock / reset.
PairClass ==
    [enum_classes |-> {enum_Sm, enum_Status},
     states |-> [e \in {enum_Sm, enum_Status} |-> 2],
     initial |-> [e \in {enum_Sm, enum_Status} |-> 0],
     accessors |-> {MachineContext(enum_Sm, str_getSm, str_setSm),
                    MachineContext(enum_Status, str_getStatus, str_setStatus)},
     set_to |-> [e \in {enum_Sm, enum_Status} |-> [s \in range(2) |-> s]],
     events |-> (str_open :> Event(enum_Sm, moves(2, 0, 1)))
                @@ (str_close :> Event(enum_Sm, moves(2, 1, 0)))
                @@ (str_lock :> Event(enum_Status, moves(2, 0, 1)))
                @@ (str_reset :> Event(enum_Status, moves(2, 1, 0))),
     extras |-> {Method(str_delete, 1, ReturnsOther, <<>>)},
     one_shot |-> FALSE]

\* The classes that differ from base in what the event does in one state.
ChangesOf(base, name) ==
    LET n == base.states[base.events[name].machine]
    IN  {[base EXCEPT !.events[name].delta[s] = Transition(result, after)] :
            s \in range(n), result \in EventResults, after \in range(n)}

\* The classes that differ from base in what one event does in one state.
OneChangeFrom(base) == UNION {ChangesOf(base, name) : name \in DOMAIN base.events}

\* The classes whose setter of one enumeration ignores its argument.
DeafSetter(base) ==
    {[base EXCEPT !.set_to[e] = [s \in range(base.states[e]) |-> base.initial[e]]] :
        e \in base.enum_classes}

\* The classes one of whose sub-machines starts in its second state.
StartsElsewhere(base) ==
    {[base EXCEPT !.initial[e] = 1] : e \in base.enum_classes}

Implementations ==
    OneChangeFrom(DoorClass) \cup OneChangeFrom(PairClass)
    \cup DeafSetter(DoorClass) \cup DeafSetter(PairClass)
    \cup StartsElsewhere(DoorClass) \cup StartsElsewhere(PairClass)
    \cup {[DoorClass EXCEPT !.one_shot = TRUE], [PairClass EXCEPT !.one_shot = TRUE]}

\* What a call of the event on a freshly constructed instance gives.
fresh_outcome(impl, name) ==
    LET event == impl.events[name]
        result == event.delta[impl.initial[event.machine]].result
    IN  IF result \in {"True", "False"} THEN ReturnsBool
        ELSE IF result = "raises" THEN RaisesException
        ELSE ReturnsOther

\* The class as discovery sees it: its enumerations and its methods.
class_of(impl) ==
    [enum_classes |-> impl.enum_classes,
     methods |->
        {Method(a.getter_name, 1, ReturnsEnum(a.enum_cls), <<>>) : a \in impl.accessors}
        \cup {Method(a.setter_name, 2, ReturnsOther, a.enum_cls) : a \in impl.accessors}
        \cup {Method(name, 1, fresh_outcome(impl, name), <<>>) : name \in DOMAIN impl.events}
        \cup impl.extras]

\* cls(): a new instance, the id-th one constructed by the extraction.
construct(impl, id) ==
    [id |-> id, state |-> impl.initial, events_invoked |-> 0, setter_calls |-> 0]

\* getattr(obj, setter_name)(source)
call_setter(impl, obj, enum_cls, source) ==
    [obj EXCEPT !.state[enum_cls] = impl.set_to[enum_cls][source],
                !.setter_calls = @ + 1]

\* getattr(obj, getter_name)()
call_getter(obj, enum_cls) == obj.state[enum_cls]

\* getattr(obj, event)(): the returned result and the instance afterwards.
call_event(impl, obj, name) ==
    LET event == impl.events[name]
        current == obj.state[event.machine]
        step == IF impl.one_shot /\ obj.events_invoked > 0
                THEN Transition("False", current)
                ELSE event.delta[current]
    IN  [result |-> step.result,
         obj |-> [obj EXCEPT !.state[event.machine] =
                                 IF step.result = "raises" THEN current ELSE step.after,
                             !.events_invoked = @ + 1]]

\* Mutant of probe_instance: the instance of the previous probe is used again
\* when there is one.
probe_instance_reused(impl, obj, constructed) ==
    IF obj = <<>> THEN construct(impl, constructed + 1) ELSE obj

\* obj = cls() at the top of the loop body; obj is the instance the variable
\* held before (<<>> for none).
probe_instance(impl, obj, constructed) == construct(impl, constructed + 1)

discovery_of(verifier, cls, hash_seed) ==
    IF verifier = "door" THEN door_discovery(cls, hash_seed)
    ELSE IF verifier = "graph" THEN graph_discovery(cls, hash_seed)
    ELSE cc_discovery(cls, hash_seed)

\* Mutant of initial_probe: the initial state is read from the instance of
\* the last probe when there is one.
initial_probe_reused(impl, obj, constructed) ==
    IF obj = <<>> THEN construct(impl, constructed + 1) ELSE obj

\* probe = cls() before the loops; obj is the instance of the last probe
\* (<<>> for none).
initial_probe(impl, obj, constructed) == construct(impl, constructed + 1)

\* extract_machine_model up to the loop, for the k-th context: states, the
\* emptiness check, the initial state of a fresh instance, the zero matrix.
start_machine(impl, r, k) ==
    LET enum_cls == r.contexts[k].enum_cls
        n == impl.states[enum_cls]
        probe == initial_probe(impl, r.obj, r.constructed)
    IN  IF n = 0
        THEN [r EXCEPT !.kind = "raised", !.error = NoStatesDiscovered]
        ELSE [r EXCEPT !.kind = "probing",
                       !.context_index = k,
                       !.state_count = n,
                       !.initial_index = call_getter(probe, enum_cls),
                       !.initial_probes = Append(@, probe),
                       !.pos = <<0, 0>>,
                       !.probed = {},
                       !.adjacency = ZeroMatrix(n),
                       !.constructed = @ + 1]

RunInit ==
    /\ oracle_model = <<>>
    /\ candidate_model = <<>>
    /\ verdict = Idle
    /\ oracle_machines = <<>>
    /\ candidate_machines = <<>>
    /\ set_verdict = Idle
    /\ probe_pos = <<>>
    /\ adjacency = <<>>
    /\ observed = <<>>
    /\ extraction = Idle
    /\ class_under_test = <<>>
    /\ discovery = Idle
    /\ implementation \in Implementations
    /\ run = Idle
    /\ finished_runs = <<>>
    /\ environment = <<>>
    /\ process = Idle
    /\ benchmark = Idle
    /\ docker = <<>>
    /\ test_script = Idle

\* The call starts: discovery, then the first extract_machine_model up to its
\* loop.  A second call is made with the same verifier as the first.
RunBegin(verifier) ==
    /\ run = Idle
    /\ Len(finished_runs) < MaxRuns
    /\ finished_runs # <<>> => finished_runs[1].verifier = verifier
    /\ \E hash_seed \in HashSeeds :
          LET found == discovery_of(verifier, class_of(implementation), hash_seed)
              called == [kind |-> "probing", verifier |-> verifier,
                         contexts |-> found.contexts, event_names |-> found.event_names,
                         context_index |-> 0, state_count |-> 0, initial_index |-> 0,
                         pos |-> <<0, 0>>, adjacency |-> <<>>, models |-> <<>>,
                         constructed |-> 0, obj |-> <<>>, last |-> <<>>, error |-> "",
                         probed |-> {}, probed_at_return |-> <<>>,
                         initial_probes |-> <<>>]
          IN  run' = IF found.kind = "raised"
                     THEN [called EXCEPT !.kind = "raised", !.error = found.error]
                     ELSE start_machine(implementation, called, 1)
    /\ UNCHANGED <<implementation, finished_runs,
                   iso_vars, set_vars, extract_vars, discover_vars, main_vars, runner_vars, tests_vars>>

\* One pass of the loop body of extract_machine_model.
RunProbe(verifier) ==
    /\ run.kind = "probing"
    /\ run.verifier = verifier
    /\ run.pos[1] < run.state_count
    /\ LET enum_cls == run.contexts[run.context_index].enum_cls
           source == run.pos[1]
           event == run.event_names[run.pos[2] + 1]
           obj == probe_instance(implementation, run.obj, run.constructed)
           forced == call_setter(implementation, obj, enum_cls, source)
           before == call_getter(forced, enum_cls)
           called == call_event(implementation, forced, event)
           result == called.result
           after == call_getter(called.obj, enum_cls)
           branch == IF result = "raises" THEN "propagate"
                     ELSE probe_policy(verifier, before, result, after)
       IN  run' = [run EXCEPT
                     !.obj = called.obj,
                     !.probed = @ \cup {<<source, event>>},
                     !.constructed = IF obj.id > @ THEN obj.id ELSE @,
                     !.last = [context_index |-> run.context_index, source |-> source,
                               event |-> event, instance |-> obj.id,
                               constructed_before |-> run.constructed,
                               events_before |-> obj.events_invoked,
                               setter_calls_before |-> obj.setter_calls,
                               events_after |-> called.obj.events_invoked,
                               before |-> before, result |-> result, after |-> after,
                               incremented |-> (branch = "increment")],
                     !.adjacency = IF branch = "increment"
                                   THEN AddEdge(@, source, after) ELSE @,
                     !.kind = IF branch \in {"raise", "propagate"} THEN "raised" ELSE @,
                     !.error = IF branch = "raise" THEN InconsistentEventContract
                               ELSE IF branch = "propagate" THEN CandidateException
                               ELSE @,
                     !.pos = IF branch \in {"raise", "propagate"} THEN @
                             ELSE next_pair(@, Len(run.event_names))]
    /\ UNCHANGED <<implementation, finished_runs,
                   iso_vars, set_vars, extract_vars, discover_vars, main_vars, runner_vars, tests_vars>>

\* After the loop: the Model is returned and appended to the list; the next
\* context's extract_machine_model starts, or the list is complete.
RunReturnModel(verifier) ==
    /\ run.kind = "probing"
    /\ run.verifier = verifier
    /\ run.pos[1] >= run.state_count
    /\ LET model == MachineModel(run.state_count, run.initial_index, run.adjacency)
           listed == [run EXCEPT !.models = Append(@, model),
                                 !.probed_at_return = Append(@, run.probed)]
       IN  run' = IF run.context_index < Len(run.contexts)
                  THEN start_machine(implementation, listed, run.context_index + 1)
                  ELSE [listed EXCEPT !.kind = "returned"]
    /\ UNCHANGED <<implementation, finished_runs,
                   iso_vars, set_vars, extract_vars, discover_vars, main_vars, runner_vars, tests_vars>>

\* The call is over: main() holds what it returned or raised.
RunFinish ==
    /\ run.kind \in {"returned", "raised"}
    /\ finished_runs' = Append(finished_runs,
                               [verifier |-> run.verifier, kind |-> run.kind,
                                contexts |-> run.contexts,
                                event_names |-> run.event_names,
                                models |-> IF run.kind = "returned" THEN run.models ELSE <<>>,
                                error |-> run.error])
    /\ run' = Idle
    /\ UNCHANGED <<implementation, iso_vars, set_vars, extract_vars, discover_vars, main_vars, runner_vars, tests_vars>>

DoorRunBegin == RunBegin("door")
DoorRunProbe == RunProbe("door")
DoorRunReturnModel == RunReturnModel("door")
GraphRunBegin == RunBegin("graph")
GraphRunProbe == RunProbe("graph")
GraphRunReturnModel == RunReturnModel("graph")
CreditCardRunBegin == RunBegin("credit-card")
CreditCardRunProbe == RunProbe("credit-card")
CreditCardRunReturnModel == RunReturnModel("credit-card")

RunNext ==
    \/ DoorRunBegin \/ DoorRunProbe \/ DoorRunReturnModel
    \/ GraphRunBegin \/ GraphRunProbe \/ GraphRunReturnModel
    \/ CreditCardRunBegin \/ CreditCardRunProbe \/ CreditCardRunReturnModel
    \/ RunFinish

RunSpec == RunInit /\ [][RunNext]_vars

(***************************************************************************)
(* main() and the __main__ guard of the verifier scripts.                  *)
(***************************************************************************)
\* A raised Python exception: its class, its message and the status the
\* interpreter exits with when nothing catches it.
PyException(class, message) == [class |-> class, message |-> message, code |-> 1]

\* sys.exit(code)
SystemExit(code) == [class |-> "SystemExit", message |-> <<>>, code |-> code]

\* An interrupt raised while the candidate's code runs.
KeyboardInterrupt == [class |-> "KeyboardInterrupt", message |-> <<>>, code |-> 130]

\* isinstance(exc, Exception): SystemExit and KeyboardInterrupt derive from
\* BaseException only.
isinstance_Exception(exc) == exc.class \notin {"SystemExit", "KeyboardInterrupt"}

\* What the candidate's code raises when it raises.
CandidateThrows ==
    {PyException("ValueError", <<"raised by the candidate">>),
     SystemExit(0), SystemExit(3), KeyboardInterrupt}

\* The file at CANDIDATE_MODULE_PATH: whether it exists, whether its top-level
\* code completes, which class it defines ("expected" for the expected name,
\* "another" for a class of another name, "none"), that class, and what its
\* code raises when it raises.
CandidateFile(exists, top_level, defines, impl, throws) ==
    [exists |-> exists, top_level |-> top_level, defines |-> defines,
     impl |-> impl, throws |-> throws]

MainVerifiers == {"door", "credit-card", "graph"}

\* The class Umple generates for ORACLE_UMPLE, at the model's size: the door
\* for the door and agent-loop scripts, the two-machine class for credit-card.
oracle_implementation(verifier) ==
    IF verifier = "credit-card" THEN PairClass ELSE DoorClass

OracleFile(verifier) ==
    CandidateFile(TRUE, "completes", "expected", oracle_implementation(verifier),
                  PyException("ValueError", <<"raised by the oracle">>))

CandidateClasses ==
    OneChangeFrom(DoorClass) \cup {PairClass, [DoorClass EXCEPT !.one_shot = TRUE]}

CandidateFiles ==
    {CandidateFile(FALSE, "completes", "none", DoorClass, throws) : throws \in CandidateThrows}
    \cup {CandidateFile(TRUE, "raises", "expected", DoorClass, throws) :
              throws \in CandidateThrows}
    \cup {CandidateFile(TRUE, "completes", defines, DoorClass, throws) :
              defines \in {"another", "none"}, throws \in CandidateThrows}
    \cup {CandidateFile(TRUE, "completes", "expected", impl, throws) :
              impl \in CandidateClasses, throws \in CandidateThrows}

\* load_class: the existence check, exec_module, the lookup by name, the
\* first class defined in the module, the RuntimeError.
load_class(file) ==
    IF ~file.exists
    THEN Raise(PyException("FileNotFoundError", <<"Expected the module path to exist">>))
    ELSE IF file.top_level = "raises" THEN Raise(file.throws)
    ELSE IF file.defines = "expected" THEN Return(file.impl)
    ELSE IF file.defines = "another" THEN Return(file.impl)
    ELSE Raise(PyException("RuntimeError", <<"No class found in module">>))

\* load_oracle_class: the generator's return code, then load_class of the
\* generated module.
load_oracle_class(verifier, returncode) ==
    IF returncode # 0
    THEN Raise(PyException("RuntimeError",
                           <<"Failed to generate oracle Python from Umple">>))
    ELSE load_class(OracleFile(verifier))

\* The loops of extract_machine_model from (source, event) position pos on.
RECURSIVE probe_from(_, _, _, _, _, _, _)
probe_from(verifier, impl, throws, context, event_names, pos, adj) ==
    LET enum_cls == context.enum_cls
        n == impl.states[enum_cls]
    IN  IF pos[1] >= n
        THEN Return(MachineModel(n, call_getter(construct(impl, 1), enum_cls), adj))
        ELSE LET source == pos[1]
                 event == event_names[pos[2] + 1]
                 forced == call_setter(impl, construct(impl, 1), enum_cls, source)
                 before == call_getter(forced, enum_cls)
                 called == call_event(impl, forced, event)
                 after == call_getter(called.obj, enum_cls)
                 branch == IF called.result = "raises" THEN "propagate"
                           ELSE probe_policy(verifier, before, called.result, after)
             IN  IF branch = "propagate" THEN Raise(throws)
                 ELSE IF branch = "raise"
                 THEN Raise(PyException("AssertionError", <<InconsistentEventContract>>))
                 ELSE probe_from(verifier, impl, throws, context, event_names,
                                 next_pair(pos, Len(event_names)),
                                 IF branch = "increment"
                                 THEN AddEdge(adj, source, after) ELSE adj)

\* extract_machine_model(cls, context, event_names)
main_extract_machine_model(verifier, impl, throws, context, event_names) ==
    IF impl.states[context.enum_cls] = 0
    THEN Raise(PyException("AssertionError", <<NoStatesDiscovered>>))
    ELSE probe_from(verifier, impl, throws, context, event_names, <<0, 0>>,
                    ZeroMatrix(impl.states[context.enum_cls]))

\* [extract_machine_model(cls, context, event_names) for context in contexts]
\* from the k-th context on: the first exception ends the comprehension.
RECURSIVE models_from(_, _, _, _, _, _)
models_from(verifier, impl, throws, contexts, event_names, k) ==
    IF k > Len(contexts) THEN Return(<<>>)
    ELSE LET first == main_extract_machine_model(verifier, impl, throws,
                                                 contexts[k], event_names)
             others == models_from(verifier, impl, throws, contexts, event_names, k + 1)
         IN  IF first.raised THEN first
             ELSE IF others.raised THEN others
             ELSE Return(<<first.value>> \o others.value)

\* A method that discovery calls on a probe instance raises: `except
\* Exception: continue` skips it unless what it raises is no Exception.
discovery_call_raises(impl) ==
    \E name \in DOMAIN impl.events : fresh_outcome(impl, name) = RaisesException

\* The extraction call once discovery has found (or failed to find) the
\* contexts and the event names.
extract_after(verifier, impl, throws, found) ==
    LET accessors_found == found.kind # "raised" \/ found.error = NoEventsDiscovered
    IN  IF accessors_found /\ discovery_call_raises(impl) /\ ~isinstance_Exception(throws)
        THEN Raise(throws)
        ELSE IF found.kind = "raised"
        THEN Raise(PyException("AssertionError", <<found.error>>))
        ELSE models_from(verifier, impl, throws, found.contexts, found.event_names, 1)

\* What main() gets from its extraction call on a class: the Models, or the
\* exception that leaves the call.
main_extract(verifier, impl, throws, hash_seed) ==
    extract_after(verifier, impl, throws,
                  discovery_of(verifier, class_of(impl), hash_seed))

\* The comparison main() makes: isomorphic_up_to_renaming of the two Models
\* in the door script, machine_sets_isomorphic of the two lists in the others.
main_compare(verifier, oracle_models, candidate_models) ==
    IF verifier = "door"
    THEN door_isomorphic_up_to_renaming(oracle_models[1], candidate_models[1])
    ELSE IF verifier = "graph"
    THEN graph_machine_sets_isomorphic(oracle_models, candidate_models)
    ELSE cc_machine_sets_isomorphic(oracle_models, candidate_models)

NoException == <<>>

Process(pc, candidate_class, oracle_class, candidate_models, oracle_models, raised) ==
    [pc |-> pc, candidate_class |-> candidate_class, oracle_class |-> oracle_class,
     candidate_models |-> candidate_models, oracle_models |-> oracle_models,
     raised |-> raised, stdout |-> <<>>, stderr |-> <<>>, exit_status |-> <<>>]

\* The process after an assignment statement of main(): the variable holds
\* what the call returned and main() is at next_pc, or the process unwinds
\* with the exception the call raised.
after_statement(proc, variable, outcome, next_pc) ==
    IF outcome.raised
    THEN [proc EXCEPT !.pc = "unwinding", !.raised = outcome.error]
    ELSE [proc EXCEPT ![variable] = outcome.value, !.pc = next_pc]

MainInit ==
    /\ oracle_model = <<>>
    /\ candidate_model = <<>>
    /\ verdict = Idle
    /\ oracle_machines = <<>>
    /\ candidate_machines = <<>>
    /\ set_verdict = Idle
    /\ probe_pos = <<>>
    /\ adjacency = <<>>
    /\ observed = <<>>
    /\ extraction = Idle
    /\ class_under_test = <<>>
    /\ discovery = Idle
    /\ implementation = <<>>
    /\ run = Idle
    /\ finished_runs = <<>>
    /\ environment = <<>>
    /\ process = Idle
    /\ benchmark = Idle
    /\ docker = <<>>
    /\ test_script = Idle

\* python test_state_machine.py: the script is started on a candidate file.
MainStart ==
    /\ process = Idle
    /\ \E verifier \in MainVerifiers, file \in CandidateFiles :
          environment' = [verifier |-> verifier, candidate_file |-> file]
    /\ process' = Process("load_candidate", <<>>, <<>>, <<>>, <<>>, NoException)
    /\ UNCHANGED <<iso_vars, set_vars, extract_vars, discover_vars, run_vars, runner_vars, tests_vars>>

\* candidate_class = load_class(CANDIDATE_MODULE_PATH, EXPECTED_CLASS_NAME)
MainLoadCandidate ==
    /\ process # Idle
    /\ process.pc = "load_candidate"
    /\ process' = after_statement(process, "candidate_class",
                                   load_class(environment.candidate_file), "load_oracle")
    /\ UNCHANGED <<environment, iso_vars, set_vars, extract_vars, discover_vars, run_vars, runner_vars, tests_vars>>

\* oracle_class = load_oracle_class()
MainLoadOracle ==
    /\ process # Idle
    /\ process.pc = "load_oracle"
    /\ \E returncode \in {0, 1} :
          process' = after_statement(process, "oracle_class",
                                     load_oracle_class(environment.verifier, returncode),
                                     "extract_candidate")
    /\ UNCHANGED <<environment, iso_vars, set_vars, extract_vars, discover_vars, run_vars, runner_vars, tests_vars>>

\* candidate_models = extract_all_machine_models(candidate_class)
MainExtractCandidate ==
    /\ process # Idle
    /\ process.pc = "extract_candidate"
    /\ \E hash_seed \in HashSeeds :
          process' = after_statement(process, "candidate_models",
                                     main_extract(environment.verifier,
                                                  process.candidate_class,
                                                  environment.candidate_file.throws,
                                                  hash_seed),
                                     "extract_oracle")
    /\ UNCHANGED <<environment, iso_vars, set_vars, extract_vars, discover_vars, run_vars, runner_vars, tests_vars>>

\* oracle_models = extract_all_machine_models(oracle_class)
MainExtractOracle ==
    /\ process # Idle
    /\ process.pc = "extract_oracle"
    /\ \E hash_seed \in HashSeeds :
          process' = after_statement(process, "oracle_models",
                                     main_extract(environment.verifier, process.oracle_class,
                                                  OracleFile(environment.verifier).throws,
                                                  hash_seed),
                                     "compare")
    /\ UNCHANGED <<environment, iso_vars, set_vars, extract_vars, discover_vars, run_vars, runner_vars, tests_vars>>

\* The comparison, `assert equivalent, ...` and the print of the OK line.
MainCompare ==
    /\ process # Idle
    /\ process.pc = "compare"
    /\ LET compared == main_compare(environment.verifier, process.oracle_models,
                                    process.candidate_models)
       IN  process' =
               IF compared.ok
               THEN [process EXCEPT !.pc = "returned", !.stdout = <<"OK">>]
               ELSE [process EXCEPT
                         !.pc = "unwinding",
                         !.raised = PyException("AssertionError",
                                                <<"State machine mismatch",
                                                  compared.reason>>)]
    /\ UNCHANGED <<environment, iso_vars, set_vars, extract_vars, discover_vars, run_vars, runner_vars, tests_vars>>

\* try: main() / except Exception as exc: the FAIL line on stderr and
\* sys.exit(1); an exception that is no Exception passes the clause.
MainGuard ==
    /\ process # Idle
    /\ process.pc = "unwinding"
    /\ process' =
           IF isinstance_Exception(process.raised)
           THEN [process EXCEPT !.pc = "uncaught",
                                !.stderr = Append(@, <<"FAIL", process.raised.message>>),
                                !.raised = SystemExit(1)]
           ELSE [process EXCEPT !.pc = "uncaught"]
    /\ UNCHANGED <<environment, iso_vars, set_vars, extract_vars, discover_vars, run_vars, runner_vars, tests_vars>>

\* The interpreter ends: status 0 after the script's last statement, the
\* code of a SystemExit, a traceback and the interrupt's status otherwise.
MainExit ==
    /\ process # Idle
    /\ process.pc \in {"returned", "uncaught"}
    /\ process' =
           IF process.pc = "returned"
           THEN [process EXCEPT !.pc = "ended", !.exit_status = 0]
           ELSE IF process.raised.class = "SystemExit"
           THEN [process EXCEPT !.pc = "ended", !.exit_status = process.raised.code]
           ELSE [process EXCEPT !.pc = "ended", !.exit_status = process.raised.code,
                                !.stderr = Append(@, <<"Traceback", <<process.raised.class>>>>)]
    /\ UNCHANGED <<environment, iso_vars, set_vars, extract_vars, discover_vars, run_vars, runner_vars, tests_vars>>

MainNext ==
    \/ MainStart \/ MainLoadCandidate \/ MainLoadOracle
    \/ MainExtractCandidate \/ MainExtractOracle \/ MainCompare
    \/ MainGuard \/ MainExit

MainSpec == MainInit /\ [][MainNext]_vars

(***************************************************************************)
(* runner.py: run_benchmark builds each task's image, runs the harness and *)
(* the tests in one container each, and reads the task's results.json.     *)
(***************************************************************************)
\* Python's None, and a value that is not None.
None == <<>>

\* What subprocess.run(argv, ...) met: the command ended with a return
\* code, ran into the timeout, or its executable was not found.
Exited(code) == [kind |-> "exited", code |-> code]

TimedOut == [kind |-> "timeout", code |-> 0]

CommandNotFound == [kind |-> "not_found", code |-> 0]

NonZeroCodes == {2}

\* docker build, docker run, docker kill are run without a timeout.
UntimedOutcomes == {Exited(0), CommandNotFound} \cup {Exited(c) : c \in NonZeroCodes}

\* docker kill: the container is killed, is no longer there, or docker is
\* not found.
KillOutcomes == {Exited(0), Exited(1), CommandNotFound}

\* docker exec is run with timeout_s = spec.timeout_seconds.
ExecOutcomes == UntimedOutcomes \cup {TimedOut}

\* class RunnerError(RuntimeError); exit_code is None where the attribute
\* was never set.
RunnerError(exit_code) == [class |-> "RunnerError", exit_code |-> exit_code]

TimeoutExpired == [class |-> "TimeoutExpired", exit_code |-> None]

NothingRaised == [raised |-> FALSE, error |-> [class |-> "", exit_code |-> None]]

Raises(error) == [raised |-> TRUE, error |-> error]

\* _run_cmd(argv, timeout_s): what the call raises.
run_cmd(outcome) ==
    IF outcome.kind = "not_found" THEN Raises(RunnerError(None))
    ELSE IF outcome.kind = "timeout" THEN Raises(TimeoutExpired)
    ELSE IF outcome.code # 0 THEN Raises(RunnerError(<<outcome.code>>))
    ELSE NothingRaised

\* getattr(e, "exit_code", 1)
getattr_exit_code(e, default) == IF e.exit_code = None THEN default ELSE e.exit_code[1]

\* Mutant of exec_attempt: no except clause, whatever docker exec raises
\* goes on after the finally clause.
exec_attempt_uncaught(outcome) ==
    IF outcome = Exited(0)
    THEN [exit_code |-> <<0>>, timed_out |-> FALSE, pending |-> None]
    ELSE [exit_code |-> None, timed_out |-> FALSE, pending |-> <<"RunnerError">>]

\* The try statement around docker exec with its two except clauses:
\* exit_code, timed_out and the exception still propagating when the finally
\* clause is entered.
exec_attempt(outcome) ==
    LET call == run_cmd(outcome)
    IN  IF ~call.raised
        THEN [exit_code |-> <<0>>, timed_out |-> FALSE, pending |-> None]
        ELSE IF call.error.class = "TimeoutExpired"
        THEN [exit_code |-> None, timed_out |-> TRUE, pending |-> None]
        ELSE IF call.error.class = "RunnerError"
        THEN [exit_code |-> <<getattr_exit_code(call.error, 1)>>, timed_out |-> FALSE,
              pending |-> None]
        ELSE [exit_code |-> None, timed_out |-> FALSE, pending |-> <<call.error.class>>]

\* _best_effort(argv): the command is attempted; a FileNotFoundError is
\* swallowed and the return code is not looked at.
best_effort(outcome) == NothingRaised

Command(cmd, step, outcome) == [cmd |-> cmd, step |-> step, outcome |-> outcome]

\* Mutant of finally_kill: the kill follows the exec inside the try block,
\* so it is skipped when the exec raised.
kill_unless_raised(commands, step, outcome) ==
    IF commands[Len(commands)].outcome = Exited(0)
    THEN Append(commands, Command("kill", step, outcome))
    ELSE commands

\* The finally clause of _run_step_in_container: docker kill of the step's
\* container, whatever the try statement did.
finally_kill(commands, step, outcome) == Append(commands, Command("kill", step, outcome))

\* _ExecResult(exit_code, duration_ms, timed_out), the duration left out.
ExecResult(exit_code, timed_out) == [exit_code |-> exit_code, timed_out |-> timed_out]

\* The text of a results.json: not JSON at all, a JSON array, or a JSON
\* object whose num_failed and num_tests members are present or not.
Doc(json, num_failed, num_tests, notes) ==
    [json |-> json, num_failed |-> num_failed, num_tests |-> num_tests, notes |-> notes]

Counts == {0, 1}

OptionalCount == {None} \cup {<<n>> : n \in Counts}

ResultTexts ==
    {Doc("invalid", None, None, None), Doc("array", None, None, None)}
        \cup {Doc("object", f, t, None) : f \in OptionalCount, t \in OptionalCount}

NoFile == [exists |-> FALSE, text |-> Doc("invalid", None, None, None), written_by |-> "nobody"]

File(text, writer) == [exists |-> TRUE, text |-> text, written_by |-> writer]

\* _write_fallback_results: num_tests = 0, num_passed = 0, num_failed = 0.
write_fallback_results ==
    File(Doc("object", <<0>>, <<0>>,
             <<"Missing /out/results.json (tests did not produce results).">>), "runner")

\* json.loads(text)
json_loads(text) ==
    IF text.json = "invalid"
    THEN [raised |-> TRUE, value |-> Doc("object", None, None, None)]
    ELSE [raised |-> FALSE, value |-> text]

\* results.get(key, default) of a dict.
dict_get(d, key, default) == IF d[key] = None THEN default ELSE d[key][1]

\* Lines 203-226 of _run_single_task: the fallback, the parse, the pass
\* criterion. results.get raises AttributeError on a value that is no dict.
read_results(file) ==
    LET on_disk == IF file.exists THEN file ELSE write_fallback_results
        loaded == json_loads(on_disk.text)
        results == IF loaded.raised THEN Doc("object", None, None, None) ELSE loaded.value
    IN  IF results.json # "object"
        THEN [raised |-> TRUE, passed |-> FALSE, file |-> on_disk, results |-> results]
        ELSE [raised |-> FALSE,
              passed |-> /\ dict_get(results, "num_failed", 1) = 0
                         /\ dict_get(results, "num_tests", 0) > 0,
              file |-> IF on_disk.written_by = "runner" THEN on_disk
                       ELSE [on_disk EXCEPT !.text = results],
              results |-> results]

Benchmark(pc, tasks) ==
    [pc |-> pc, tasks |-> tasks, task |-> 1, step |-> "harness",
     exit_code |-> None, timed_out |-> FALSE, pending |-> None,
     harness |-> None, tests |-> None, result |-> None,
     task_passed |-> <<>>, all_passed |-> TRUE, raised |-> None]

RunnerInit ==
    /\ oracle_model = <<>>
    /\ candidate_model = <<>>
    /\ verdict = Idle
    /\ oracle_machines = <<>>
    /\ candidate_machines = <<>>
    /\ set_verdict = Idle
    /\ probe_pos = <<>>
    /\ adjacency = <<>>
    /\ observed = <<>>
    /\ extraction = Idle
    /\ class_under_test = <<>>
    /\ discovery = Idle
    /\ implementation = <<>>
    /\ run = Idle
    /\ finished_runs = <<>>
    /\ environment = <<>>
    /\ process = Idle
    /\ benchmark = Idle
    /\ docker = <<>>
    /\ test_script = Idle

runner_others == <<iso_vars, set_vars, extract_vars, discover_vars, run_vars, main_vars, tests_vars>>

\* What an earlier run into the same output directory left in task_out.
LeftBehind == {NoFile, File(Doc("object", <<0>>, <<1>>, None), "earlier run")}

\* What the process of a step may write to /out/results.json: the tests
\* write any text, the harness is taken to write results of one passed test.
Writes(step) ==
    IF step = "tests" THEN ResultTexts ELSE {Doc("object", <<0>>, <<1>>, None)}

\* run_benchmark is called: the tasks are resolved; none resolved is fatal.
RunBenchmark ==
    /\ benchmark = Idle
    /\ \E tasks \in 0 .. MaxTasks :
          benchmark' = IF tasks = 0
                       THEN [Benchmark("raised", 0) EXCEPT !.raised = <<"SystemExit">>]
                       ELSE Benchmark("task", tasks)
    /\ docker' = [commands |-> <<>>, results_json |-> NoFile]
    /\ UNCHANGED runner_others

\* The head of the loop over the tasks: task_out.mkdir(parents=True,
\* exist_ok=True) takes the directory as it is, with the results.json an
\* earlier run into the same output directory left there.
RunTask ==
    /\ benchmark # Idle
    /\ benchmark.pc = "task"
    /\ \E left \in LeftBehind :
          docker' = [commands |-> <<>>, results_json |-> left]
    /\ benchmark' = [benchmark EXCEPT !.pc = "build", !.step = "harness",
                                      !.harness = None, !.tests = None, !.result = None]
    /\ UNCHANGED runner_others

\* The process after a _run_cmd call nothing catches.
after_run_cmd(bench, call, next_pc) ==
    IF call.raised
    THEN [bench EXCEPT !.pc = "raised", !.raised = <<call.error.class>>]
    ELSE [bench EXCEPT !.pc = next_pc]

\* _docker_build
DockerBuild ==
    /\ benchmark # Idle
    /\ benchmark.pc = "build"
    /\ \E outcome \in UntimedOutcomes :
          /\ docker' = [docker EXCEPT !.commands = Append(@, Command("build", "build", outcome))]
          /\ benchmark' = after_run_cmd(benchmark, run_cmd(outcome), "run")
    /\ UNCHANGED runner_others

\* _run_step_in_container up to the try statement: docker run -d --rm ...
\* sleep infinity, then timed_out = False and exit_code = None.
DockerRun ==
    /\ benchmark # Idle
    /\ benchmark.pc = "run"
    /\ \E outcome \in UntimedOutcomes :
          /\ docker' = [docker EXCEPT
                           !.commands = Append(@, Command("run", benchmark.step, outcome))]
          /\ benchmark' = [after_run_cmd(benchmark, run_cmd(outcome), "exec")
                               EXCEPT !.exit_code = None, !.timed_out = FALSE,
                                      !.pending = None]
    /\ UNCHANGED runner_others

\* The try statement: docker exec of the step's command in the container,
\* whose process may write /out/results.json while it runs.
DockerExec ==
    /\ benchmark # Idle
    /\ benchmark.pc = "exec"
    /\ \E outcome \in ExecOutcomes :
          LET attempt == exec_attempt(outcome)
          IN  /\ benchmark' = [benchmark EXCEPT !.pc = "finally",
                                                !.exit_code = attempt.exit_code,
                                                !.timed_out = attempt.timed_out,
                                                !.pending = attempt.pending]
              /\ \E written \in IF outcome.kind = "not_found"
                                THEN {docker.results_json}
                                ELSE {docker.results_json}
                                         \cup {File(text, benchmark.step) : text \in Writes(benchmark.step)} :
                    docker' = [docker EXCEPT
                                  !.commands = Append(@, Command("exec", benchmark.step, outcome)),
                                  !.results_json = written]
    /\ UNCHANGED runner_others

\* The finally clause: _best_effort(["docker", "kill", container_name]),
\* after which an exception the try statement did not catch goes on.
DockerKill ==
    /\ benchmark # Idle
    /\ benchmark.pc = "finally"
    /\ \E outcome \in KillOutcomes :
          /\ docker' = [docker EXCEPT !.commands = finally_kill(@, benchmark.step, outcome)]
          /\ benchmark' = IF benchmark.pending # None
                           THEN [benchmark EXCEPT !.pc = "raised", !.raised = benchmark.pending]
                           ELSE after_run_cmd(benchmark, best_effort(outcome), "return")
    /\ UNCHANGED runner_others

\* return _ExecResult(...), assigned to harness or to tests by
\* _run_single_task, which goes on with the tests step or with the results.
ReturnExecResult ==
    /\ benchmark # Idle
    /\ benchmark.pc = "return"
    /\ benchmark' =
           LET result == ExecResult(benchmark.exit_code, benchmark.timed_out)
           IN  IF benchmark.step = "harness"
               THEN [benchmark EXCEPT !.harness = <<result>>, !.step = "tests", !.pc = "run"]
               ELSE [benchmark EXCEPT !.tests = <<result>>, !.pc = "results"]
    /\ UNCHANGED <<docker>>
    /\ UNCHANGED runner_others

\* The rest of _run_single_task: results.json is read, the fallback written
\* where there is none, and the task passed or not.
ReadResults ==
    /\ benchmark # Idle
    /\ benchmark.pc = "results"
    /\ LET read == read_results(docker.results_json)
       IN  /\ docker' = [docker EXCEPT !.results_json = read.file]
           /\ benchmark' =
                  IF read.raised
                  THEN [benchmark EXCEPT !.pc = "raised", !.raised = <<"AttributeError">>]
                  ELSE [benchmark EXCEPT !.pc = "collect",
                                         !.result = <<[passed |-> read.passed,
                                                       results |-> read.results]>>]
    /\ UNCHANGED runner_others

\* run_benchmark after the call: if not result["passed"]: all_passed = False,
\* then the next task or the end of the loop.
CollectResult ==
    /\ benchmark # Idle
    /\ benchmark.pc = "collect"
    /\ benchmark' =
           LET passed == benchmark.result[1].passed
           IN  [benchmark EXCEPT
                   !.task_passed = Append(@, passed),
                   !.all_passed = IF ~passed THEN FALSE ELSE @,
                   !.task = IF benchmark.task < benchmark.tasks THEN @ + 1 ELSE @,
                   !.pc = IF benchmark.task < benchmark.tasks THEN "task" ELSE "run_json"]
    /\ UNCHANGED <<docker>>
    /\ UNCHANGED runner_others

\* run.json is written and BenchmarkRun(all_passed=all_passed) returned.
ReturnBenchmarkRun ==
    /\ benchmark # Idle
    /\ benchmark.pc = "run_json"
    /\ benchmark' = [benchmark EXCEPT !.pc = "returned"]
    /\ UNCHANGED <<docker>>
    /\ UNCHANGED runner_others

RunnerNext ==
    \/ RunBenchmark \/ RunTask \/ DockerBuild \/ DockerRun \/ DockerExec
    \/ DockerKill \/ ReturnExecResult \/ ReadResults \/ CollectResult
    \/ ReturnBenchmarkRun

RunnerSpec == RunnerInit /\ [][RunnerNext]_vars

\* The runner is one sequential process and every docker command it waits
\* for ends: whatever step is enabled is eventually taken.
RunnerLiveSpec == RunnerSpec /\ WF_vars(RunnerNext)

(***************************************************************************)
(* run_tests.py of the state-machines dataset: main() checks a submission  *)
(* against spec.json and writes results.json.                              *)
(***************************************************************************)
\* The submission's text as its tokens: an identifier, a brace, or a line
\* that holds one transition "event -> dst;" and nothing else.
Name(x) == [t |-> "name", name |-> x, dst |-> ""]

Open == [t |-> "{", name |-> "", dst |-> ""]

Close == [t |-> "}", name |-> "", dst |-> ""]

Line(event, dst) == [t |-> "line", name |-> event, dst |-> dst]

\* class C { stateMachine { A { e -> B; } B { } } }
CompleteText ==
    <<Name("class"), Name("C"), Open, Name("stateMachine"), Open,
      Name("A"), Open, Line("e", "B"), Close, Name("B"), Open, Close, Close, Close>>

SubmissionTexts ==
    { <<>>,
      CompleteText,
      SubSeq(CompleteText, 4, 13),
      <<Name("class"), Name("C"), Open, Name("A"), Open, Line("e", "B"), Close, Close>>,
      <<Name("class"), Name("C"), Name("stateMachine")>>,
      SubSeq(CompleteText, 1, 12),
      <<Name("class"), Name("C"), Open, Name("stateMachine"), Open,
        Name("A"), Open, Close, Name("B"), Open, Close, Close, Close>> }

Submissions == {[is_file |-> FALSE, text |-> <<>>]} \cup {[is_file |-> TRUE, text |-> x] : x \in SubmissionTexts}

\* An entry of required_transitions, a member left out read as "".
RequiredTransition(src, event, dst) == [from |-> src, event |-> event, to |-> dst]

RequiredTransitions ==
    {RequiredTransition("A", "e", "B"), RequiredTransition("Z", "e", "B"),
     RequiredTransition("A", "f", "B"), RequiredTransition("", "e", "B")}

RequiredStates == {"A", "Z"}

SpecObject(required_class, required_states, required_transitions) ==
    [json |-> "object", required_class |-> required_class,
     required_states |-> required_states, required_transitions |-> required_transitions]

\* spec.json: missing or not JSON, a JSON array, or an object.
SpecFiles ==
    {[SpecObject("", <<>>, <<>>) EXCEPT !.json = kind] : kind \in {"unreadable", "array"}}
        \cup {SpecObject(c, s, t) : c \in {"", "C"},
                                    s \in ListsUpTo(RequiredStates, MaxRequired),
                                    t \in ListsUpTo(RequiredTransitions, MaxRequired)}

\* text.find(token, start), positions counted from 1 and 0 for not found.
RECURSIVE find(_, _, _)
find(text, token, start) ==
    IF start > Len(text) THEN 0
    ELSE IF text[start] = token THEN start
    ELSE find(text, token, start + 1)

\* f"class {required_class}" in text
class_declared(text, required_class) ==
    \E k \in 1 .. (Len(text) - 1) :
        text[k] = Name("class") /\ text[k + 1] = Name(required_class)

\* The for loop of _extract_brace_content from position i on.
RECURSIVE brace_scan(_, _, _, _)
brace_scan(text, start, i, depth) ==
    IF i > Len(text) THEN [content |-> <<>>, ok |-> FALSE]
    ELSE IF text[i] = Open THEN brace_scan(text, start, i + 1, depth + 1)
    ELSE IF text[i] = Close
    THEN IF depth - 1 = 0
         THEN [content |-> SubSeq(text, start, i - 1), ok |-> TRUE]
         ELSE brace_scan(text, start, i + 1, depth - 1)
    ELSE brace_scan(text, start, i + 1, depth)

extract_brace_content(text, open_brace_index) ==
    brace_scan(text, open_brace_index + 1, open_brace_index, 0)

\* The while loop of _parse_top_level_named_blocks from position i on.
RECURSIVE named_blocks_from(_, _, _)
named_blocks_from(content, i, out) ==
    IF i > Len(content) THEN out
    ELSE IF content[i].t # "name" THEN named_blocks_from(content, i + 1, out)
    ELSE LET k == i + 1
         IN  IF k > Len(content) \/ content[k] # Open
             THEN named_blocks_from(content, k, out)
             ELSE LET found == extract_brace_content(content, k)
                  IN  IF ~found.ok THEN out
                      ELSE named_blocks_from(content, k + 1 + Len(found.content) + 1,
                                             (content[i].name :> found.content) @@ out)

parse_top_level_named_blocks(content) == named_blocks_from(content, 1, <<>>)

\* _parse_state_blocks(text, failures): the blocks and what it appends.
parse_state_blocks(text) ==
    LET idx == find(text, Name("stateMachine"), 1)
        brace_start == find(text, Open, idx)
        found == extract_brace_content(text, brace_start)
    IN  IF idx = 0 THEN [blocks |-> <<>>, failures |-> <<>>]
        ELSE IF brace_start = 0
        THEN [blocks |-> <<>>, failures |-> <<"Malformed 'stateMachine' (missing '{')">>]
        ELSE IF ~found.ok
        THEN [blocks |-> <<>>, failures |-> <<"Malformed 'stateMachine' (unbalanced braces)">>]
        ELSE [blocks |-> parse_top_level_named_blocks(found.content), failures |-> <<>>]

\* _parse_transitions(state_block)
parse_transitions(state_block) ==
    {<<state_block[k].name, state_block[k].dst>> :
        k \in {j \in 1 .. Len(state_block) : state_block[j].t = "line"}}

\* The body of the loop over required_transitions: what it appends.
transition_failures(t, state_blocks) ==
    IF t.from = "" \/ t.event = "" \/ t.to = ""
    THEN <<"Malformed required transition entry">>
    ELSE IF t.from \notin DOMAIN state_blocks
    THEN <<"Missing transition source state">>
    ELSE IF <<t.event, t.to>> \notin parse_transitions(state_blocks[t.from])
    THEN <<"Missing transition">>
    ELSE <<>>

max(a, b) == IF a >= b THEN a ELSE b

\* num_failed, num_passed and num_tests of the results written.
count_results(num_tests, failures) ==
    LET num_failed == Len(failures)
    IN  [num_tests |-> num_tests,
         num_passed |-> max(0, num_tests - num_failed),
         num_failed |-> num_failed]

TestsInit ==
    /\ oracle_model = <<>>
    /\ candidate_model = <<>>
    /\ verdict = Idle
    /\ oracle_machines = <<>>
    /\ candidate_machines = <<>>
    /\ set_verdict = Idle
    /\ probe_pos = <<>>
    /\ adjacency = <<>>
    /\ observed = <<>>
    /\ extraction = Idle
    /\ class_under_test = <<>>
    /\ discovery = Idle
    /\ implementation = <<>>
    /\ run = Idle
    /\ finished_runs = <<>>
    /\ environment = <<>>
    /\ process = Idle
    /\ benchmark = Idle
    /\ docker = <<>>
    /\ test_script = Idle

tests_others == <<iso_vars, set_vars, extract_vars, discover_vars, run_vars, main_vars, runner_vars>>

\* python run_tests.py: main() is entered with a spec.json and a submission.
TestsStart ==
    /\ test_script = Idle
    /\ \E spec_file \in SpecFiles, submission \in Submissions :
          test_script' = [pc |-> "read_spec", spec_file |-> spec_file,
                          submission |-> submission, failures |-> <<>>,
                          spec |-> SpecObject("", <<>>, <<>>), text |-> <<>>,
                          num_tests |-> 0, state_blocks |-> <<>>, next |-> 1,
                          results |-> None]
    /\ UNCHANGED tests_others

\* Lines 30-39: spec.json is read, a failure to read it is one failure, and
\* the three required_* values are taken from it.
TestsReadSpec ==
    /\ test_script # Idle
    /\ test_script.pc = "read_spec"
    /\ test_script' =
           IF test_script.spec_file.json = "unreadable"
           THEN [test_script EXCEPT !.failures = Append(@, "Failed to read spec.json"),
                                    !.pc = "read_submission"]
           ELSE IF test_script.spec_file.json = "array"
           THEN [test_script EXCEPT !.pc = "raised"]
           ELSE [test_script EXCEPT !.spec = test_script.spec_file, !.pc = "read_submission"]
    /\ UNCHANGED tests_others

\* Lines 41-45
TestsReadSubmission ==
    /\ test_script # Idle
    /\ test_script.pc = "read_submission"
    /\ test_script' =
           IF ~test_script.submission.is_file
           THEN [test_script EXCEPT !.failures = Append(@, "Missing submission file"),
                                    !.pc = "check_class"]
           ELSE [test_script EXCEPT !.text = test_script.submission.text, !.pc = "check_class"]
    /\ UNCHANGED tests_others

\* Lines 47-51
TestsCheckClass ==
    /\ test_script # Idle
    /\ test_script.pc = "check_class"
    /\ test_script' =
           [test_script EXCEPT
               !.num_tests = 0 + 1,
               !.failures = IF /\ test_script.spec.required_class # ""
                               /\ ~class_declared(test_script.text, test_script.spec.required_class)
                            THEN Append(@, "Missing class declaration")
                            ELSE @,
               !.pc = "check_state_machine"]
    /\ UNCHANGED tests_others

\* Lines 53-57
TestsCheckStateMachine ==
    /\ test_script # Idle
    /\ test_script.pc = "check_state_machine"
    /\ test_script' =
           LET parsed == parse_state_blocks(test_script.text)
               missing == IF find(test_script.text, Name("stateMachine"), 1) = 0
                          THEN <<"Missing 'stateMachine' block">>
                          ELSE <<>>
           IN  [test_script EXCEPT
                   !.num_tests = @ + 1,
                   !.failures = @ \o missing \o parsed.failures,
                   !.state_blocks = parsed.blocks,
                   !.pc = "states", !.next = 1]
    /\ UNCHANGED tests_others

\* Lines 59-62, one pass of the loop or its end.
TestsCheckState ==
    /\ test_script # Idle
    /\ test_script.pc = "states"
    /\ test_script' =
           IF test_script.next > Len(test_script.spec.required_states)
           THEN [test_script EXCEPT !.pc = "transitions", !.next = 1]
           ELSE [test_script EXCEPT
                    !.num_tests = @ + 1,
                    !.failures = IF test_script.spec.required_states[test_script.next]
                                        \notin DOMAIN test_script.state_blocks
                                 THEN Append(@, "Missing state")
                                 ELSE @,
                    !.next = @ + 1]
    /\ UNCHANGED tests_others

\* Lines 64-78, one pass of the loop or its end.
TestsCheckTransition ==
    /\ test_script # Idle
    /\ test_script.pc = "transitions"
    /\ test_script' =
           IF test_script.next > Len(test_script.spec.required_transitions)
           THEN [test_script EXCEPT !.pc = "write"]
           ELSE [test_script EXCEPT
                    !.num_tests = @ + 1,
                    !.failures = @ \o transition_failures(
                                          test_script.spec.required_transitions[test_script.next],
                                          test_script.state_blocks),
                    !.next = @ + 1]
    /\ UNCHANGED tests_others

\* Lines 80-112
TestsWriteResults ==
    /\ test_script # Idle
    /\ test_script.pc = "write"
    /\ test_script' =
           [test_script EXCEPT
               !.results = <<count_results(test_script.num_tests, test_script.failures)>>,
               !.pc = "ended"]
    /\ UNCHANGED tests_others

TestsNext ==
    \/ TestsStart \/ TestsReadSpec \/ TestsReadSubmission \/ TestsCheckClass
    \/ TestsCheckStateMachine \/ TestsCheckState \/ TestsCheckTransition
    \/ TestsWriteResults

TestsSpec == TestsInit /\ [][TestsNext]_vars

(***************************************************************************)
(* Vocabulary of the claims about isomorphic_up_to_renaming.               *)
(***************************************************************************)
Multigraph == {"door", "credit-card"}

AllCheckers == {"door", "credit-card", "graph"}

Returned(checkers) == verdict.kind = "returned" /\ verdict.checker \in checkers

SameStateCount == oracle_model.state_count = candidate_model.state_count

SameInitial == oracle_model.initial_index = candidate_model.initial_index

RECURSIVE CellsFrom(_, _)
\* The sum of the cells numbered k .. n*n-1 (row-major) of a Model's matrix.
CellsFrom(model, k) ==
    LET n == model.state_count
    IN  IF k >= n * n THEN 0
        ELSE cell(model, k \div n, k % n) + CellsFrom(model, k + 1)

EdgeCount(model) == CellsFrom(model, 0)

\* p carries the oracle's initial state to the candidate's.
PinsInitial(p) == p[oracle_model.initial_index] = candidate_model.initial_index

\* Every cell of the oracle equals the relabeled cell of the candidate.
PreservesCounts(p) ==
    \A i, j \in range(oracle_model.state_count) :
        cell(oracle_model, i, j) = cell(candidate_model, p[i], p[j])

\* Every cell of the oracle is non-zero exactly when the relabeled cell is.
PreservesPresence(p) ==
    \A i, j \in range(oracle_model.state_count) :
        (cell(oracle_model, i, j) > 0) = (cell(candidate_model, p[i], p[j]) > 0)

IsIdentity(p) == \A i \in DOMAIN p : p[i] = i

\* C1: the door and credit-card checkers return (True, "ok") exactly when the
\* two Models have the same state_count and some bijection of the state
\* indices carries the oracle's initial index to the candidate's and every
\* oracle cell to an equal candidate cell; otherwise the boolean is False.
C1_MultigraphDecision ==
    Returned(Multigraph) =>
        /\ verdict.ok <=>
              /\ SameStateCount
              /\ \E p \in Bijections(oracle_model.state_count) :
                    PinsInitial(p) /\ PreservesCounts(p)
        /\ verdict.ok <=> (verdict.reason = "ok")

\* C1 witness: a 3-state pair accepted by the door checker only at a later
\* permutation than the first one tried.
C1_Witness ==
    /\ Returned({"door"})
    /\ oracle_model.state_count = 3
    /\ verdict.ok
    /\ verdict.tried > 1

\* The candidate is relabel(oracle, p) for a permutation p that fixes the
\* oracle's initial index.
RelabeledFixingInitial(p) ==
    /\ p[oracle_model.initial_index] = oracle_model.initial_index
    /\ candidate_model = relabel(oracle_model, p)

\* C2: renaming invariance; every checker accepts relabel(M, p) against M when
\* p fixes the initial index, and the 3-state door machine is accepted against
\* each of its relabelings (whose initial state is the image of Closed).
C2_RenamingInvariance ==
    Returned(AllCheckers) =>
        /\ (\E p \in Bijections(oracle_model.state_count) : RelabeledFixingInitial(p))
              => verdict.ok
        /\ (/\ oracle_model = DoorOracle
            /\ \E p \in Bijections(3) : candidate_model = relabel(DoorOracle, p))
              => verdict.ok

\* C2 witness: the graph checker accepted a candidate that is a relabeling,
\* by a permutation fixing the initial index, different from the oracle itself.
C2_Witness ==
    /\ Returned({"graph"})
    /\ verdict.ok
    /\ candidate_model # oracle_model
    /\ \E p \in Bijections(oracle_model.state_count) : RelabeledFixingInitial(p)

\* The two Models have the same state_count and initial_index, and their
\* matrices differ in exactly one cell, by one.
DiffersByOneInCell(i, j) ==
    /\ SameStateCount
    /\ SameInitial
    /\ \/ cell(candidate_model, i, j) = cell(oracle_model, i, j) + 1
       \/ cell(candidate_model, i, j) = cell(oracle_model, i, j) - 1
    /\ \A a, b \in range(oracle_model.state_count) :
          <<a, b>> # <<i, j>> => cell(candidate_model, a, b) = cell(oracle_model, a, b)

OneEdgeApart ==
    /\ SameStateCount
    /\ \E i, j \in range(oracle_model.state_count) : DiffersByOneInCell(i, j)

\* C3 as stated: every checker, the shared graph module included, rejects a
\* candidate one transition apart from the oracle.
C3_AsStated == (Returned(AllCheckers) /\ OneEdgeApart) => ~verdict.ok

\* C3 amended: one transition apart is rejected by the door and credit-card
\* checkers; the shared graph module rejects it exactly when the changed cell
\* is zero on one side, and accepts it when the cell is positive on both.
C3_OneEdgeApart ==
    /\ (Returned(Multigraph) /\ OneEdgeApart) => ~verdict.ok
    /\ (Returned({"graph"}) /\ SameStateCount) =>
          \A i, j \in range(oracle_model.state_count) :
              DiffersByOneInCell(i, j) =>
                  (verdict.ok <=>
                      (cell(oracle_model, i, j) > 0 /\ cell(candidate_model, i, j) > 0))

\* C3 witness: the door checker rejected a candidate with one extra transition.
C3_Witness ==
    /\ Returned({"door"})
    /\ OneEdgeApart
    /\ EdgeCount(candidate_model) = EdgeCount(oracle_model) + 1
    /\ ~verdict.ok

\* Same state_count, same matrix, different initial_index.
DiffersOnlyInInitial ==
    /\ SameStateCount
    /\ oracle_model.adjacency = candidate_model.adjacency
    /\ ~SameInitial

\* C4 as stated: two Models that differ only in the initial index are always
\* rejected.
C4_AsStated == (Returned(AllCheckers) /\ DiffersOnlyInInitial) => ~verdict.ok

\* C4 amended: two Models that differ only in the initial index are rejected
\* unless a symmetry of the matrix (of its non-zero pattern, for the shared
\* graph module) carries one initial state to the other.
C4_InitialSensitivity ==
    /\ (Returned(Multigraph) /\ DiffersOnlyInInitial) =>
          (verdict.ok <=> \E p \in Bijections(oracle_model.state_count) :
                              PinsInitial(p) /\ PreservesCounts(p))
    /\ (Returned({"graph"}) /\ DiffersOnlyInInitial) =>
          (verdict.ok <=> \E p \in Bijections(oracle_model.state_count) :
                              PinsInitial(p) /\ PreservesPresence(p))

\* C4 witness: the door checker rejected a 3-state candidate that differs from
\* the oracle only in its initial index, after trying every permutation.
C4_Witness ==
    /\ Returned({"door"})
    /\ DiffersOnlyInInitial
    /\ oracle_model.state_count = 3
    /\ ~verdict.ok
    /\ verdict.tried = 2

\* C8: self-loop preservation; whenever the door or credit-card checker
\* accepts, some bijection carrying initial to initial gives every oracle
\* state with a self-loop a candidate state with a self-loop of the same
\* multiplicity.
C8_SelfLoopPreservation ==
    (Returned(Multigraph) /\ verdict.ok) =>
        /\ SameStateCount
        /\ \E p \in Bijections(oracle_model.state_count) :
              /\ PinsInitial(p)
              /\ \A i \in range(oracle_model.state_count) :
                    cell(oracle_model, i, i) > 0 =>
                        cell(candidate_model, p[i], p[i]) = cell(oracle_model, i, i)

\* C8 witness: the credit-card checker accepted an oracle with a self-loop on
\* a non-initial state against a candidate that carries it at another index.
C8_Witness ==
    /\ Returned({"credit-card"})
    /\ verdict.ok
    /\ \E i \in range(oracle_model.state_count) :
          /\ i # oracle_model.initial_index
          /\ cell(oracle_model, i, i) > 0
          /\ cell(candidate_model, i, i) = 0

\* Same state_count and initial_index, and the same set of non-zero cells.
SameNonZeroCells ==
    /\ SameStateCount
    /\ SameInitial
    /\ \A i, j \in range(oracle_model.state_count) :
          (cell(oracle_model, i, j) > 0) = (cell(candidate_model, i, j) > 0)

\* C9: the shared graph module accepts two Models with the same state_count,
\* initial_index and set of non-zero cells, whatever the multiplicities.
C9_ParallelTransitionsCollapse ==
    (Returned({"graph"}) /\ SameNonZeroCells) => verdict.ok

\* C9 witness: the graph module accepted a pair with the same non-zero cells
\* and different multiplicities.
C9_Witness ==
    /\ Returned({"graph"})
    /\ SameNonZeroCells
    /\ oracle_model.adjacency # candidate_model.adjacency
    /\ verdict.ok

\* C10: with equal state_count and different sum(adjacency) the door and
\* credit-card checkers return (False, "Transition count mismatch") without
\* trying a permutation; so for the door without its lock/unlock pair.
C10_TransitionCountMismatch ==
    Returned(Multigraph) =>
        /\ (SameStateCount /\ EdgeCount(oracle_model) # EdgeCount(candidate_model)) =>
              /\ ~verdict.ok
              /\ verdict.reason = TransitionCountMismatch
              /\ verdict.tried = 0
        /\ (/\ oracle_model = DoorOracle
            /\ \E p \in Bijections(3) : candidate_model = relabel(DoorWithoutLock, p)) =>
              /\ ~verdict.ok
              /\ verdict.reason = TransitionCountMismatch

\* C10 witness: the door checker rejected a relabeled door without the
\* lock/unlock pair against the door oracle.
C10_Witness ==
    /\ Returned({"door"})
    /\ oracle_model = DoorOracle
    /\ candidate_model # DoorWithoutLock
    /\ \E p \in Bijections(3) : candidate_model = relabel(DoorWithoutLock, p)
    /\ verdict.reason = TransitionCountMismatch

\* C11: the state count mismatch is decided first; whenever the two
\* state_counts differ, each of the three checkers returns
\* (False, "State count mismatch") whatever the matrices and initial indices
\* are, before any permutation is tried, so that no matrix is indexed with a
\* state index of the other Model.
C11_StateCountMismatchFirst ==
    (Returned(AllCheckers) /\ ~SameStateCount) =>
        /\ ~verdict.ok
        /\ verdict.reason = StateCountMismatch
        /\ verdict.tried = 0

\* C11 witness: the credit-card checker returned the state count mismatch for
\* a 3-state oracle whose initial index is out of the candidate's range and
\* whose transition count differs from the candidate's as well.
C11_Witness ==
    /\ Returned({"credit-card"})
    /\ oracle_model.state_count = 3
    /\ oracle_model.initial_index >= candidate_model.state_count
    /\ EdgeCount(oracle_model) # EdgeCount(candidate_model)
    /\ verdict.reason = StateCountMismatch

(***************************************************************************)
(* Vocabulary of the claims about machine_sets_isomorphic.                 *)
(***************************************************************************)
SetReturned(checkers) == set_verdict.kind = "returned" /\ set_verdict.checker \in checkers

\* isomorphic_up_to_renaming of the verifier the set matcher belongs to.
PairAccepted(checker, reference, candidate) ==
    IF checker = "graph"
    THEN graph_isomorphic_up_to_renaming(reference, candidate).ok
    ELSE cc_isomorphic_up_to_renaming(reference, candidate).ok

\* permute(list, a): 0-based position k of the result holds list[a[k]].
permute(list, a) == [k \in 1 .. Len(list) |-> list[a[k - 1] + 1]]

PositionBijections(list) == Bijections(Len(list))

MatchSets(checker, reference_list, candidate_list) ==
    IF checker = "graph"
    THEN graph_machine_sets_isomorphic(reference_list, candidate_list).ok
    ELSE cc_machine_sets_isomorphic(reference_list, candidate_list).ok

\* C5: machine_sets_isomorphic returns True exactly when the lists have the
\* same length and some permutation q of the candidate positions makes every
\* pair (refs[k], cands[q(k)]) isomorphic; with different lengths it returns
\* False with the count mismatch reason and has compared no pair.
C5_SetMatcherDecision ==
    SetReturned({"graph", "credit-card"}) =>
        /\ set_verdict.ok <=>
              /\ Len(oracle_machines) = Len(candidate_machines)
              /\ \E q \in PositionBijections(candidate_machines) :
                    \A k \in 1 .. Len(oracle_machines) :
                        PairAccepted(set_verdict.checker, oracle_machines[k],
                                     candidate_machines[q[k - 1] + 1])
        /\ Len(oracle_machines) # Len(candidate_machines) =>
              /\ ~set_verdict.ok
              /\ set_verdict.reason =
                    MachineCountMismatch(Len(oracle_machines), Len(candidate_machines))
              /\ set_verdict.compared = 0

\* C5 witness: the shared module accepted two lists of two sub-machines whose
\* first entries do not match each other.
C5_Witness ==
    /\ SetReturned({"graph"})
    /\ set_verdict.ok
    /\ Len(oracle_machines) = 2
    /\ ~PairAccepted("graph", oracle_machines[1], candidate_machines[1])

\* C6: set permutation invariance; reordering either list leaves the boolean
\* unchanged, and two 2-state sub-machines match the same two sub-machines
\* listed in swapped order.
C6_SetPermutationInvariance ==
    SetReturned({"graph", "credit-card"}) =>
        /\ \A a \in PositionBijections(oracle_machines) :
              \A b \in PositionBijections(candidate_machines) :
                  MatchSets(set_verdict.checker, permute(oracle_machines, a),
                            permute(candidate_machines, b)) = set_verdict.ok
        /\ (/\ Len(oracle_machines) = 2
            /\ candidate_machines = <<oracle_machines[2], oracle_machines[1]>>)
              => set_verdict.ok

\* C6 witness: the credit-card matcher accepted two different 2-state
\* sub-machines against the same two in swapped order.
C6_Witness ==
    /\ SetReturned({"credit-card"})
    /\ Len(oracle_machines) = 2
    /\ oracle_machines[1].state_count = 2
    /\ oracle_machines[2].state_count = 2
    /\ ~PairAccepted("credit-card", oracle_machines[1], oracle_machines[2])
    /\ candidate_machines = <<oracle_machines[2], oracle_machines[1]>>
    /\ set_verdict.ok

(***************************************************************************)
(* Claims about extract_machine_model.                                     *)
(***************************************************************************)
Probed == extraction.kind \in {"running", "raised", "returned"} /\ observed # <<>>

\* The last probe's event returned False and the state read after it differs
\* from the state read before it.
FalseButChanged ==
    /\ Probed
    /\ observed.result = "False"
    /\ observed.after # observed.before

\* C7: contract violation detection; in each of the three extractors, a probe
\* whose event returns False while the state changed raises the inconsistent
\* contract error at that probe: no cell is incremented for it, the loop does
\* not go on to another pair, and no Model is returned.
C7_ContractViolationDetected ==
    FalseButChanged =>
        /\ extraction.kind = "raised"
        /\ extraction.error = InconsistentEventContract
        /\ extraction.model = <<>>
        /\ ~observed.incremented
        /\ probe_pos = <<observed.source, observed.event>>

\* C7 witness: the shared module raised on a False-but-changed probe after
\* having recorded a transition in an earlier probe.
C7_Witness ==
    /\ FalseButChanged
    /\ extraction.extractor = "graph"
    /\ extraction.kind = "raised"
    /\ probe_pos # <<0, 0>>
    /\ adjacency # ZeroMatrix(extraction.state_count)

\* The state read after the last probe's event equals the state read before it.
StateUnchanged ==
    /\ Probed
    /\ observed.result # "raises"
    /\ observed.after = observed.before

DiscoveryDone == discovery.kind \in {"returned", "raised"}

DiscoveryReturned == discovery.kind = "returned"

\* The methods that take no argument besides the instance and return a bool
\* on a freshly constructed instance.
BooleanOperations ==
    {m \in class_under_test.methods : m.parameters = 1 /\ m.outcome.kind = "bool"}

\* C16: discovery never yields an empty result; what it returns holds at
\* least one sub-machine and at least one event, and it raises when the class
\* exposes no enumeration and when no operation qualifies as an event.
C16_DiscoveryNeverEmpty ==
    DiscoveryDone =>
        /\ DiscoveryReturned =>
              /\ Len(discovery.contexts) >= 1
              /\ Len(discovery.event_names) >= 1
        /\ class_under_test.enum_classes = {} =>
              /\ discovery.kind = "raised"
              /\ discovery.error \in {NoEnumsDiscovered, ExpectedOneEnum}
        /\ BooleanOperations = {} => discovery.kind = "raised"

\* C16 witness: the door verifier found the accessors of the one enumeration
\* of a class that has boolean operations, none of which qualifies as an
\* event, and raised for the empty event list.
C16_Witness ==
    /\ discovery.kind = "raised"
    /\ discovery.verifier = "door"
    /\ discovery.error = NoEventsDiscovered
    /\ BooleanOperations # {}

MethodNames(methods) == {m.name : m \in methods}

\* The methods that take no argument besides the instance and return a
\* member of enum_cls on a freshly constructed instance.
ReadAccessors(enum_cls) ==
    {m \in class_under_test.methods :
        m.parameters = 1 /\ m.outcome = ReturnsEnum(enum_cls)}

\* The methods that take a member of enum_cls and store it.
WriteAccessors(enum_cls) ==
    {m \in class_under_test.methods : m.parameters = 2 /\ m.stores = enum_cls}

\* The capability set: at least one enumeration, exactly one read accessor and
\* a write accessor per enumeration, at least one boolean operation.
Capability ==
    /\ class_under_test.enum_classes # {}
    /\ \A enum_cls \in class_under_test.enum_classes :
          /\ Cardinality(ReadAccessors(enum_cls)) = 1
          /\ WriteAccessors(enum_cls) # {}
    /\ BooleanOperations # {}

\* C14 as stated: with the capability set, discovery succeeds and finds the
\* read accessors, whatever their names.
C14_AsStated ==
    (DiscoveryDone /\ Capability) =>
        /\ DiscoveryReturned
        /\ \A k \in 1 .. Len(discovery.contexts) :
              discovery.contexts[k].getter_name
                  \in MethodNames(ReadAccessors(discovery.contexts[k].enum_cls))

\* The read accessors of enum_cls named get<X>, <X> not ending in FullName.
GetNamedAccessors(enum_cls) ==
    {m \in ReadAccessors(enum_cls) :
        startswith(m.name, str_get) /\ ~endswith(m.name, str_FullName)}

\* The class has an attribute named set<X> for the accessor get<X>.
HasSetNamedPartner(getter) ==
    \E a \in MethodNames(class_under_test.methods) \cup class_under_test.enum_classes :
        /\ startswith(a, str_set)
        /\ SubSeq(a, 4, Len(a)) = SubSeq(getter.name, 4, Len(getter.name))

\* The boolean operations whose name does not start with "_", is not
\* "delete", is not of the form get...FullName and is none of the accessors.
EventNamedOperations(accessor_names) ==
    {m \in BooleanOperations :
        /\ ~startswith(m.name, str_underscore)
        /\ m.name \notin {str_init, str_delete}
        /\ ~(startswith(m.name, str_get) /\ endswith(m.name, str_FullName))
        /\ m.name \notin accessor_names}

\* The capability set under the get<X> / set<X> naming of the accessors.
NamedCapability ==
    /\ class_under_test.enum_classes # {}
    /\ \A enum_cls \in class_under_test.enum_classes :
          /\ Cardinality(GetNamedAccessors(enum_cls)) = 1
          /\ \A getter \in GetNamedAccessors(enum_cls) : HasSetNamedPartner(getter)

\* The names get<X> and set<X> of the accessors of every enumeration.
NamedAccessorNames ==
    UNION {{getter.name, str_set \o SubSeq(getter.name, 4, Len(getter.name))} :
              getter \in UNION {GetNamedAccessors(enum_cls) :
                                   enum_cls \in class_under_test.enum_classes}}

ContextNames(contexts) ==
    {contexts[k].getter_name : k \in 1 .. Len(contexts)}
    \cup {contexts[k].setter_name : k \in 1 .. Len(contexts)}

SeqToSet(list) == {list[k] : k \in 1 .. Len(list)}

\* C14 amended: discovery succeeds, and finds the accessors and the events,
\* for a class with at least one enumeration (exactly one for the door
\* verifier), exactly one read accessor named get<X> (not get...FullName) and
\* an attribute set<X> per enumeration, and at least one boolean operation
\* whose name does not start with "_", is not "delete" and is not of the form
\* get...FullName; <X> and the event names are free.
C14_DiscoveryUnderNaming ==
    (/\ DiscoveryDone
     /\ NamedCapability
     /\ discovery.verifier = "door" => Cardinality(class_under_test.enum_classes) = 1
     /\ EventNamedOperations(NamedAccessorNames) # {})
    =>  /\ DiscoveryReturned
        /\ {discovery.contexts[k].enum_cls : k \in 1 .. Len(discovery.contexts)}
              = class_under_test.enum_classes
        /\ Len(discovery.contexts) = Cardinality(class_under_test.enum_classes)
        /\ \A k \in 1 .. Len(discovery.contexts) :
              /\ discovery.contexts[k].getter_name
                    \in MethodNames(GetNamedAccessors(discovery.contexts[k].enum_cls))
              /\ discovery.contexts[k].setter_name
                    = str_set \o SubSeq(discovery.contexts[k].getter_name, 4,
                                        Len(discovery.contexts[k].getter_name))
        /\ SeqToSet(discovery.event_names)
              = MethodNames(EventNamedOperations(NamedAccessorNames))

\* C14 witness: the shared module discovered the sub-machine of the
\* enumeration Sm through accessors named after Mode, not after Sm, and an
\* event.
C14_Witness ==
    /\ DiscoveryReturned
    /\ discovery.verifier = "graph"
    /\ discovery.contexts = <<MachineContext(enum_Sm, str_getMode, str_setMode)>>
    /\ Len(discovery.event_names) >= 1

\* C15 as stated: for each enumeration, discovery raises when no or more than
\* one read accessor (a get-named method of one parameter that returns a
\* member on a fresh instance) exists or when the set-named partner is
\* missing; what it returns never holds one of several candidates.
C15_AsStated ==
    DiscoveryDone =>
        /\ (\E enum_cls \in class_under_test.enum_classes :
                \/ Cardinality(GetNamedAccessors(enum_cls)) # 1
                \/ \E getter \in GetNamedAccessors(enum_cls) : ~HasSetNamedPartner(getter))
              => discovery.kind = "raised"
        /\ DiscoveryReturned =>
              \A k \in 1 .. Len(discovery.contexts) :
                  MethodNames(GetNamedAccessors(discovery.contexts[k].enum_cls))
                      = {discovery.contexts[k].getter_name}

\* C20 as stated: the event set holds exactly the boolean operations that are
\* neither claimed accessors nor construction or destruction.
C20_AsStated ==
    DiscoveryReturned =>
        SeqToSet(discovery.event_names)
            = {m.name : m \in {b \in BooleanOperations :
                                  b.name \notin ContextNames(discovery.contexts)
                                                  \cup {str_init, str_delete}}}

\* C20 amended: the event set holds exactly the operations that take no
\* argument besides the instance, whose name does not start with "_", is not
\* "__init__" or "delete", is not of the form get...FullName and is not a
\* claimed accessor, and that return a boolean without raising on a fresh
\* instance; an operation that raises or returns a non-boolean is never in it.
C20_EventFilter ==
    DiscoveryReturned =>
        /\ SeqToSet(discovery.event_names)
              = MethodNames(EventNamedOperations(ContextNames(discovery.contexts)))
        /\ \A m \in class_under_test.methods :
              m.outcome.kind \in {"raises", "other", "enum"}
                  => m.name \notin SeqToSet(discovery.event_names)

\* C20 witness: the shared module returned an event set for a class that
\* also has an operation returning a non-boolean which is no accessor, and a
\* boolean operation whose name starts with "_".
C20_Witness ==
    /\ DiscoveryReturned
    /\ discovery.verifier = "graph"
    /\ \E m \in class_under_test.methods :
          /\ m.parameters = 1
          /\ m.outcome.kind = "enum"
          /\ m.name \notin ContextNames(discovery.contexts)
    /\ \E m \in BooleanOperations : startswith(m.name, str_underscore)

(***************************************************************************)
(* Claims about extract_all_machine_models run on a fixed class.           *)
(***************************************************************************)
\* names[k] < names[k + 1] throughout: sorted, without duplicates.
StrictlyAscending(names) ==
    \A k \in 1 .. (Len(names) - 1) : str_less(names[k], names[k + 1])

RunDiscovered == run # Idle /\ run.kind \in {"probing", "returned"}

\* The Models the call has completed so far, with the enumeration of each.
CompletedModels ==
    IF RunDiscovered
    THEN {[enum_cls |-> run.contexts[k].enum_cls, model |-> run.models[k]] :
              k \in 1 .. Len(run.models)}
    ELSE {}

\* C13: determinism; the calls of extract_all_machine_models on one class
\* return identical lists of Models (or raise the same error), whatever order
\* the set of event names is iterated in, so that a comparison against
\* the same oracle gives the same verdict; the sub-machines are ordered by
\* enumeration name, the event names are sorted and free of duplicates, and
\* the events are probed in that order.
C13_Determinism ==
    /\ \A a, b \in 1 .. Len(finished_runs) :
          /\ finished_runs[a].kind = finished_runs[b].kind
          /\ finished_runs[a].models = finished_runs[b].models
          /\ finished_runs[a].event_names = finished_runs[b].event_names
          /\ finished_runs[a].error = finished_runs[b].error
          /\ graph_machine_sets_isomorphic(<<DoorOracle>>, finished_runs[a].models).ok
                = graph_machine_sets_isomorphic(<<DoorOracle>>, finished_runs[b].models).ok
    /\ RunDiscovered =>
          /\ StrictlyAscending([k \in 1 .. Len(run.contexts) |-> run.contexts[k].enum_cls])
          /\ StrictlyAscending(run.event_names)
          /\ (run.last # <<>> /\ run.kind = "probing"
               /\ run.last.context_index = run.context_index) =>
                 \/ /\ run.pos[1] = run.last.source
                    /\ run.pos[2] >= 1
                    /\ run.event_names[run.pos[2]] = run.last.event
                 \/ /\ run.pos = <<run.last.source + 1, 0>>
                    /\ run.event_names[Len(run.event_names)] = run.last.event

\* C13 witness: two calls of the shared module's extract_all_machine_models
\* have returned the Models of two sub-machines, probed with three events or
\* more.
C13_Witness ==
    /\ Len(finished_runs) = 2
    /\ finished_runs[1].verifier = "graph"
    /\ finished_runs[2].kind = "returned"
    /\ Len(finished_runs[2].models) = 2
    /\ Len(finished_runs[2].event_names) >= 3

\* A fresh instance on which the setter of the enumeration was called with state i.
ForcedInstance(enum_cls, i) ==
    call_setter(implementation, construct(implementation, 1), enum_cls, i)

\* The setter did force the fresh instance into state i.
ForcedInto(enum_cls, i) == call_getter(ForcedInstance(enum_cls, i), enum_cls) = i

\* The discovered events that, invoked on a fresh instance forced into state
\* i of the enumeration, return True and leave the instance in state j of it.
EventsDriving(enum_cls, i, j) ==
    {name \in SeqToSet(run.event_names) :
        LET called == call_event(implementation, ForcedInstance(enum_cls, i), name)
        IN  called.result = "True" /\ call_getter(called.obj, enum_cls) = j}

\* C18: parallel transitions sum; in every Model returned by
\* extract_machine_model, for every pair of distinct states i # j into the
\* first of which the setter forces a fresh instance, adjacency[i][j] is the
\* number of distinct discovered events that return True and leave the
\* instance in state j when invoked on a fresh instance forced into state i.
C18_ParallelTransitionsSum ==
    \A done \in CompletedModels :
        \A i, j \in range(done.model.state_count) :
            (i # j /\ ForcedInto(done.enum_cls, i)) =>
                cell(done.model, i, j) = Cardinality(EventsDriving(done.enum_cls, i, j))

\* C18 witness: the credit-card verifier returned a Model in which two
\* events drive the machine from one state to another one.
C18_Witness ==
    /\ RunDiscovered
    /\ run.verifier = "credit-card"
    /\ \E done \in CompletedModels :
          \E i, j \in range(done.model.state_count) :
              i # j /\ ForcedInto(done.enum_cls, i) /\ cell(done.model, i, j) = 2

\* The cell, if any, that the probe of (source i, event name) increments when
\* it is made on an instance of its own: <<j>> for adjacency[i][j], <<>> for none.
OwnInstanceCell(verifier, enum_cls, i, name) ==
    LET forced == call_setter(implementation, construct(implementation, 1), enum_cls, i)
        called == call_event(implementation, forced, name)
        before == call_getter(forced, enum_cls)
        after == call_getter(called.obj, enum_cls)
    IN  IF called.result # "raises"
           /\ probe_policy(verifier, before, called.result, after) = "increment"
        THEN <<after>> ELSE <<>>

\* C19: fresh instance per probe; the instance of every probe is constructed
\* for it (no setter and no event was called on it before) and exactly one
\* event is invoked on it, and every returned adjacency is the sum over the
\* pairs of what each pair gives on an instance of its own, whatever was
\* probed before it.
C19_FreshInstancePerProbe ==
    /\ (run # Idle /\ run.last # <<>>) =>
          /\ run.last.events_before = 0
          /\ run.last.setter_calls_before = 0
          /\ run.last.events_after = 1
          /\ run.last.instance > run.last.constructed_before
    /\ \A done \in CompletedModels :
          \A i, j \in range(done.model.state_count) :
              cell(done.model, i, j)
                  = Cardinality({name \in SeqToSet(run.event_names) :
                                    OwnInstanceCell(run.verifier, done.enum_cls, i, name)
                                        = <<j>>})

\* C19 witness: the door verifier returned the door's Model from a class
\* whose instances answer False to every event after their first one.
C19_Witness ==
    /\ run # Idle
    /\ run.kind = "returned"
    /\ run.verifier = "door"
    /\ implementation.one_shot
    /\ run.models = <<DoorOracle>>
    /\ run.last.instance > 2

(***************************************************************************)
(* Claims about main() and the __main__ guard.                             *)
(***************************************************************************)
Ended == process # Idle /\ process.pc = "ended"

\* The run ended without main() reaching its OK line.
EndedInFailure == Ended /\ process.stdout = <<>>

\* The FAIL line is what the run wrote on stderr.
FailSurfaced == Len(process.stderr) = 1 /\ process.stderr[1][1] = "FAIL"

\* C12: every run of a verifier script that ends in a failure ends with a
\* FAIL line on stderr and exit status 1, and in no other way.
C12_AsStated == EndedInFailure => (FailSurfaced /\ process.exit_status = 1)

(***************************************************************************)
(* Claims about the Models extract_machine_model returns.                  *)
(***************************************************************************)
\* The matrix has n rows of n entries, none of them negative.
SquareNonNegative(adj, n) ==
    /\ Len(adj) = n
    /\ \A r \in 1 .. n :
          /\ Len(adj[r]) = n
          /\ \A c \in 1 .. n : adj[r][c] >= 0

\* C21: Model well-formedness; every Model returned by extract_machine_model
\* has state_count >= 1, an initial_index in [0, state_count) and a
\* state_count x state_count adjacency with no negative entry, and every
\* (state, event) pair had been probed when it was returned.
C21_ModelWellFormed ==
    run # Idle =>
        \A k \in 1 .. Len(run.models) :
            LET model == run.models[k]
            IN  /\ model.state_count >= 1
                /\ model.initial_index \in range(model.state_count)
                /\ SquareNonNegative(model.adjacency, model.state_count)
                /\ run.probed_at_return[k]
                      = range(model.state_count) \X SeqToSet(run.event_names)

\* C21 witness: the shared module returned the Models of two sub-machines,
\* one of them with an edge.
C21_Witness ==
    /\ run # Idle
    /\ run.kind = "returned"
    /\ run.verifier = "graph"
    /\ Len(run.models) = 2
    /\ Len(run.event_names) >= 2
    /\ EdgeCount(run.models[2]) >= 1

\* C22: the initial_index of an extracted Model is the index of the state the
\* getter returns on a freshly constructed instance on which no setter and
\* no event has been called.
C22_InitialIndexOfFreshInstance ==
    run # Idle =>
        /\ \A k \in 1 .. Len(run.initial_probes) :
              /\ run.initial_probes[k].setter_calls = 0
              /\ run.initial_probes[k].events_invoked = 0
        /\ \A k \in 1 .. Len(run.models) :
              /\ run.models[k].initial_index
                    = call_getter(run.initial_probes[k], run.contexts[k].enum_cls)
              /\ run.models[k].initial_index
                    = implementation.initial[run.contexts[k].enum_cls]

\* C22 witness: the second Model of a returned list has initial_index 1, the
\* state a new instance of the class is in.
C22_Witness ==
    /\ run # Idle
    /\ run.kind = "returned"
    /\ Len(run.models) = 2
    /\ run.models[2].initial_index = 1
    /\ implementation.initial[run.contexts[2].enum_cls] = 1

\* The last probe invoked an event of another sub-machine than the one
\* being extracted.
ForeignEventProbed ==
    /\ run # Idle
    /\ run.last # <<>>
    /\ implementation.events[run.last.event].machine
          # run.contexts[run.last.context_index].enum_cls

\* C26: sub-machine independence; a probe of an event that changes only
\* another sub-machine's state increments no cell of this sub-machine's
\* adjacency.
C26_AsStated == ForeignEventProbed => ~run.last.incremented

\* The number of probes of source state i made so far for the Model that
\* extract_machine_model is building.
ProbesDoneInRow(i) == Cardinality({pair \in run.probed : pair[1] = i})

\* C28: out-degree bound; each probe adds at most 1, and only to the row of
\* its source state, so the sum of row i never exceeds the number of probes
\* made from state i, the sum of a row of a returned Model is at most the
\* number of events, and sum(adjacency) <= state_count x |events|.
C28_OutDegreeBound ==
    run # Idle =>
        /\ run.kind = "probing" =>
              \A i \in range(run.state_count) :
                  sum_list(run.adjacency[i + 1]) <= ProbesDoneInRow(i)
        /\ \A k \in 1 .. Len(run.models) :
              /\ \A i \in range(run.models[k].state_count) :
                    sum_list(run.models[k].adjacency[i + 1]) <= Len(run.event_names)
              /\ EdgeCount(run.models[k])
                    <= run.models[k].state_count * Len(run.event_names)

\* C28 witness: a Model with two edges was returned, and in the matrix of
\* the next sub-machine a row's sum has reached the number of probes made
\* from its state.
C28_Witness ==
    /\ run # Idle
    /\ run.kind = "probing"
    /\ \E k \in 1 .. Len(run.models) : EdgeCount(run.models[k]) >= 2
    /\ \E i \in range(run.state_count) :
          /\ ProbesDoneInRow(i) >= 1
          /\ sum_list(run.adjacency[i + 1]) = ProbesDoneInRow(i)

\* main() accepted: the candidate was loaded, both sides were extracted and
\* the comparison returned True.
Accepted ==
    /\ process.candidate_class # <<>>
    /\ process.candidate_models # <<>>
    /\ process.oracle_models # <<>>
    /\ main_compare(environment.verifier, process.oracle_models,
                    process.candidate_models).ok

\* C25: pass signal soundness; a verifier process that ends with exit status
\* 0 has loaded the candidate, extracted both sides and got True from the
\* comparison, whatever the candidate's code does while it is loaded and
\* probed.
C25_AsStated == (Ended /\ process.exit_status = 0) => Accepted

\* The boolean isomorphic_up_to_renaming of the verifier returns.
Accepts(checker, reference, candidate) ==
    IF checker = "door" THEN door_isomorphic_up_to_renaming(reference, candidate).ok
    ELSE PairAccepted(checker, reference, candidate)

\* The pairs of lists made of the two Models compared: a repeated Model
\* against the mixed list, and lists of different lengths.
ListPairs ==
    { << <<oracle_model, oracle_model>>, <<candidate_model, oracle_model>> >>,
      << <<oracle_model>>, <<oracle_model, candidate_model>> >> }

\* C27: the verdict is symmetric in its two arguments; isomorphic_up_to_renaming
\* returns for (candidate, oracle) the boolean it returned for (oracle,
\* candidate) and accepts each of the two Models against itself, and
\* machine_sets_isomorphic of the same module returns the same boolean in
\* either order for lists made of these Models.
C27_VerdictSymmetric ==
    verdict.kind = "returned" =>
        /\ verdict.ok = Accepts(verdict.checker, candidate_model, oracle_model)
        /\ Accepts(verdict.checker, oracle_model, oracle_model)
        /\ Accepts(verdict.checker, candidate_model, candidate_model)
        /\ verdict.checker # "door" =>
              \A lists \in ListPairs :
                  MatchSets(verdict.checker, lists[1], lists[2])
                      = MatchSets(verdict.checker, lists[2], lists[1])

\* C27 witness: a rejected pair of different Models of the same size, one
\* of which has every edge of the other and one more.
C27_Witness ==
    /\ verdict.kind = "returned"
    /\ ~verdict.ok
    /\ SameStateCount
    /\ SameInitial
    /\ EdgeCount(oracle_model) + 1 = EdgeCount(candidate_model)
    /\ \A i, j \in range(oracle_model.state_count) :
          cell(oracle_model, i, j) <= cell(candidate_model, i, j)


(***************************************************************************)
(* Vocabulary of the claims about the runner.                              *)
(***************************************************************************)
Running == benchmark # Idle

\* _run_single_task has returned its result for the task in progress.
TaskCounted == Running /\ benchmark.pc = "collect"

\* The results read report num_failed == 0 and num_tests > 0.
ReportsSuccess(results) ==
    /\ results.json = "object"
    /\ results.num_failed = <<0>>
    /\ results.num_tests # None
    /\ results.num_tests[1] > 0

\* The tests step of the task in progress wrote no results.json.
TestsProducedNothing == docker.results_json.written_by # "tests"

\* C23: a task counts as passed if and only if its results report
\* num_failed == 0 and num_tests > 0; when the tests step produced no
\* results.json the fallback results are written and the task counts as
\* failed; all_passed is True only if every task passed.
C23_AsStated ==
    /\ TaskCounted =>
          /\ benchmark.result[1].passed <=> ReportsSuccess(benchmark.result[1].results)
          /\ TestsProducedNothing =>
                /\ docker.results_json = write_fallback_results
                /\ ~benchmark.result[1].passed
    /\ (Running /\ benchmark.pc = "returned" /\ benchmark.all_passed) =>
          \A k \in 1 .. Len(benchmark.task_passed) : benchmark.task_passed[k]


\* The commands issued for the task in progress, by position.
Issued(cmd, step) ==
    {k \in 1 .. Len(docker.commands) :
        docker.commands[k].cmd = cmd /\ docker.commands[k].step = step}

\* The step's container was started: its docker run succeeded.
ContainerStarted(step) ==
    \E k \in Issued("run", step) : docker.commands[k].outcome = Exited(0)

\* What the _ExecResult of a step holds for each outcome of its docker exec.
Records(result, outcome) ==
    IF outcome.kind = "timeout" THEN result = ExecResult(None, TRUE)
    ELSE IF outcome.kind = "not_found" THEN result = ExecResult(<<1>>, FALSE)
    ELSE result = ExecResult(<<outcome.code>>, FALSE)

\* The harness exec of task number t has ended, in whatever way.
HarnessExecEnded(t) ==
    /\ Running
    /\ benchmark.task = t
    /\ ContainerStarted("harness")
    /\ Issued("exec", "harness") # {}

\* The tests step of task number t is being run or has been.
TestsStepRun(t) ==
    /\ Running
    /\ benchmark.task = t
    /\ Issued("run", "tests") # {}

\* The tests step comes strictly after the end of the harness step, whose
\* _ExecResult holds the outcome of the harness exec.
TestsAfterHarness ==
    (Running /\ Issued("run", "tests") # {}) =>
        /\ benchmark.harness # None
        /\ \E e \in Issued("exec", "harness") :
              /\ Records(benchmark.harness[1], docker.commands[e].outcome)
              /\ \E k \in Issued("kill", "harness") :
                    /\ e < k
                    /\ \A r \in Issued("run", "tests") : k < r

\* C24: once the harness container has been started, whatever the outcome of
\* the harness exec (exit 0, non-zero exit, timeout), the outcome is recorded
\* in the _ExecResult and the tests step of the same task is run afterwards,
\* strictly after the harness step has finished.
C24_HarnessOutcomeNotFatal ==
    /\ []TestsAfterHarness
    /\ \A t \in 1 .. MaxTasks : HarnessExecEnded(t) ~> TestsStepRun(t)

\* The tests step was reached after a harness exec that timed out or ended
\* with a non-zero return code.
C24_Witness ==
    /\ Running
    /\ Issued("run", "tests") # {}
    /\ \E e \in Issued("exec", "harness") : docker.commands[e].outcome # Exited(0)
    /\ \E e \in Issued("exec", "harness") : Records(benchmark.harness[1], docker.commands[e].outcome)


Steps == {"harness", "tests"}

\* The finally clause of the step has been run for the exec at position e:
\* a docker kill of the step's container was attempted after it.
KillAttemptedAfter(step, e) == \E k \in Issued("kill", step) : e < k

\* _run_step_in_container is in its finally clause for the step.
InFinally(step) == benchmark.pc = "finally" /\ benchmark.step = step

\* The _ExecResult of the step has been built and handed back.
ExecResultReturned(step) ==
    \/ benchmark.pc = "return" /\ benchmark.step = step
    \/ step = "harness" /\ benchmark.harness # None
    \/ step = "tests" /\ benchmark.tests # None

KillBeforeReturn ==
    Running =>
        \A step \in Steps :
            /\ \A e \in Issued("exec", step) : InFinally(step) \/ KillAttemptedAfter(step, e)
            /\ ExecResultReturned(step) =>
                  \E e \in Issued("exec", step) : KillAttemptedAfter(step, e)

\* The container of the step of task number t is up.
StepContainerStarted(t, step) == Running /\ benchmark.task = t /\ ContainerStarted(step)

StepContainerKilled(t, step) ==
    /\ Running
    /\ benchmark.task = t
    /\ \E e \in Issued("exec", step) : KillAttemptedAfter(step, e)

\* C29: every container started by _run_step_in_container has a docker kill
\* attempted on it after the exec attempt, on every outcome of the exec
\* (success, non-zero exit, timeout, command not found), and the attempt
\* comes before the step's _ExecResult is returned.
C29_ContainerCleanup ==
    /\ []KillBeforeReturn
    /\ \A t \in 1 .. MaxTasks : \A step \in Steps :
          StepContainerStarted(t, step) ~> StepContainerKilled(t, step)

\* Both steps have returned their _ExecResult, the harness exec having timed
\* out and docker not having been found for the tests exec, and a kill was
\* attempted after each.
C29_Witness ==
    /\ Running
    /\ benchmark.tests # None
    /\ \E e \in Issued("exec", "harness") :
          docker.commands[e].outcome = TimedOut /\ KillAttemptedAfter("harness", e)
    /\ \E e \in Issued("exec", "tests") :
          docker.commands[e].outcome = CommandNotFound /\ KillAttemptedAfter("tests", e)


(***************************************************************************)
(* Vocabulary of the claims about run_tests.py.                            *)
(***************************************************************************)
ResultsWritten == test_script # Idle /\ test_script.results # None

\* C30: in every results.json written by run_tests.py main,
\* 0 <= num_failed <= num_tests and num_passed + num_failed = num_tests,
\* whatever is missing or malformed in spec.json and in the submission.
C30_AsStated ==
    ResultsWritten =>
        LET results == test_script.results[1]
        IN  /\ 0 <= results.num_failed
            /\ results.num_failed <= results.num_tests
            /\ results.num_passed + results.num_failed = results.num_tests

====
